---- MODULE Spec2Model ----
(***************************************************************************)
(* Model of the PackageKit D-Bus wrapper of cockpit-package-manager        *)
(* (src/packagemanager/theme.js, lines 53-577): the shared bus client,     *)
(* watchTransaction, transaction, cancellableTransaction and the facade    *)
(* operations searchNames, resolve and installPackage, together with the   *)
(* PackageKit service and the bus connection as their environment.         *)
(*                                                                         *)
(* One slot of Txns is one call of cancellableTransaction: its closure     *)
(* variables, the promise it returns, and the listeners it registered.     *)
(* The service-side transaction object created for a slot has the slot's   *)
(* number as its path.                                                     *)
(***************************************************************************)
EXTENDS Integers, Sequences, FiniteSets, TLC

\* ---------------------------------------------------------------- bounds
MaxNotify == 2    \* property notifications the service sends in a run
MaxPackages == 2  \* Package signals the service emits in a run
MaxWire == 1      \* messages in transit from the service for one transaction
MaxCloses == 1    \* times the bus connection is lost
MaxOutput == 4    \* characters in the output of the mount-option probe
MaxFields == 5    \* ';'-separated fields in an argument of parsePackageId
MaxGroups == 3    \* groups in the array passed to sortGroupsByPriority
MaxOperations == 2  \* installs and removals started from one view
MaxPath == 3      \* segments in a location path
MaxQuery == 4     \* characters in the search field

\* The package searches started from the search field: an earlier and a
\* later one.
Searches == {1, 2}

\* The slots: the two transactions A and B of two concurrent searches, or the
\* Resolve and the InstallPackages transaction of one installPackage call.
Txns == {1, 2}

\* ------------------------------------------------------ program constants
EXIT_SUCCESS == 1
EXIT_FAILED == 2
EXIT_CANCELLED == 3
INFO_INSTALLED == 1
INFO_AVAILABLE == 2
STATUS_WAIT == 1
STATUS_DOWNLOAD == 8
STATUS_WAITING_FOR_LOCK == 30
MaxPercentage == 100

\* ------------------------------------------------------ environment inputs
ExitCodes == {EXIT_SUCCESS, EXIT_FAILED, EXIT_CANCELLED}
\* ErrorCode(code, detail) pairs the service may report
ServiceErrors == {<<"no-network", "network is down">>,
                  <<"transaction-cancelled", "cancelled by service">>}
\* the errors a remote call may be rejected with
CallErrors == {<<"not-found", "service unreachable">>,
               <<"access-denied", "not permitted">>}
\* direct calls of cancellableTransaction(method, arglist, progressCb,
\* signalHandlers): the method and the names of the handlers supplied
DirectCalls == {<<"RefreshCache", {}>>,
                <<"SearchNames", {"Package"}>>,
                <<"RefreshCache", {"ErrorCode"}>>,
                <<"RefreshCache", {"Finished"}>>,
                <<"SearchNames", {"Package", "ErrorCode", "Finished"}>>}
\* Package(info, packageId) signals the service may emit
PackageSignals == {<<INFO_INSTALLED, "nginx;1.0;amd64;installed:main">>,
                   <<INFO_AVAILABLE, "curl;2.0;amd64;main">>}
\* property-change notifications: partial maps of the transaction properties
PropsSet == {[Status |-> STATUS_WAIT],
             [Status |-> STATUS_DOWNLOAD],
             [AllowCancel |-> TRUE],
             [AllowCancel |-> FALSE],
             [Percentage |-> 40],
             [Percentage |-> 101],
             [Status |-> STATUS_WAITING_FOR_LOCK, Percentage |-> 100]}
\* the notifications of the installPackage runs: percentages only
InstallProps == {[Percentage |-> 40], [Percentage |-> 100]}
NoProps == [x \in {} |-> 0]
\* what findmnt may print: any text over the characters of 'ro', 'rw', the
\* comma and the line end
OptionChars == {"r", "o", "w", ",", "\n"}
Outputs == UNION {[1..n -> OptionChars] : n \in 0..MaxOutput}
\* the fields package ids are made of: empty, a plain one, and tags with and
\* without the marker 'installed'
Fields == {<<>>,
           <<"a">>,
           <<"i", "n", "s", "t", "a", "l", "l", "e", "d">>,
           <<"m", ":", "i", "n", "s", "t", "a", "l", "l", "e", "d", ":", "m">>,
           <<"i", "n", "s", "t", "a", "l", "l">>}
\* Array.prototype.join(sep)
RECURSIVE join(_, _)
join(parts, sep) ==
    IF Len(parts) = 0 THEN <<>>
    ELSE IF Len(parts) = 1 THEN parts[1]
    ELSE parts[1] \o <<sep>> \o join(Tail(parts), sep)
\* the arguments of parsePackageId: strings of 1..MaxFields fields, and a
\* value that is no string
PackageIds ==
    {[type |-> "string", chars |-> join(f, ";")] :
        f \in UNION {[1..n -> Fields] : n \in 1..MaxFields}}
    \cup {[type |-> "undefined", chars |-> <<>>]}

VARIABLES
    dbusClient,   \* the cached client: 0 is null, c > 0 the c-th client created
    nclients,     \* clients created by cockpit.dbus so far
    closes,       \* 'close' events so far
    tx,           \* per slot: the closure of one cancellableTransaction call
    listeners,    \* per slot: the listeners it has registered on tx[t].client
    svc,          \* per path: state of the service-side transaction
    wire,         \* per path: messages emitted by the service, not yet dispatched
    emitted,      \* notifications and Package signals emitted so far, and
                  \* per path the Package signals in the order of emission
    obs,          \* per slot: what the caller and the bus have observed
    probe,        \* the one call of detect(): its position, inputs and result
    parsed,       \* one application of parsePackageId: its argument and result
    sorted,       \* one application of sortGroupsByPriority
    message,      \* one application of getErrorMessage
    details,      \* the PackageDetails component: state of loadPackageDetails
    nav,          \* the PackageManager component: location and rendered views
    search,       \* the GroupList component: state of the package search
    list          \* the PackageList component and the package cache

\* the state of the components and of the utility functions
views == <<sorted, message, details, nav, search, list>>

\* the state of the operations that run no transaction
aux == <<probe, parsed, sorted, message, details, nav, search, list>>

vars == <<dbusClient, nclients, closes, tx, listeners, svc, wire, emitted, obs,
          probe, parsed, sorted, message, details, nav, search, list>>

\* ------------------------------------------------------------- promises
\* new Promise((resolve, reject) => ...): settling a settled promise is a no-op
Pending == [state |-> "pending", exit |-> 0, code |-> "", detail |-> ""]
Resolved(exit) == [state |-> "resolved", exit |-> exit, code |-> "", detail |-> ""]
Rejected(code, detail) == [state |-> "rejected", exit |-> 0, code |-> code, detail |-> detail]

resolve_(p, exit) == IF p.state = "pending" THEN Resolved(exit) ELSE p
reject_(p, code, detail) == IF p.state = "pending" THEN Rejected(code, detail) ELSE p

\* ---------------------------------------------- cancellableTransaction
\* the closure right after `new Promise(...)` ran its executor up to the
\* CreateTransaction call: timer armed, call pending on client c
NewProgressData == [waiting |-> FALSE, percentage |-> 0, cancel |-> FALSE]

IdleTx == [op |-> "none", method |-> "", pc |-> "idle", path |-> 0,
           client |-> 0, callClient |-> 0, promise |-> Pending,
           cancelled |-> FALSE, status |-> 0, allowWaitStatus |-> FALSE,
           progressData |-> NewProgressData, progressCb |-> FALSE,
           userCb |-> FALSE, timer |-> "none", packages |-> <<>>, next |-> 0,
           arg |-> <<>>, ncreate |-> 0, ninvoke |-> 0]

\* if (signalHandlers?.ErrorCode || signalHandlers?.Finished) throw new Error(...)
throwsNever(signalHandlers) == FALSE
throws(signalHandlers) ==
    "ErrorCode" \in signalHandlers \/ "Finished" \in signalHandlers

cancellableTransaction(r, op, method, cb, c) ==
    [r EXCEPT !.op = op, !.method = method, !.pc = "creating",
              !.callClient = c, !.promise = Pending,
              !.cancelled = FALSE, !.status = 0, !.allowWaitStatus = FALSE,
              !.progressData = NewProgressData, !.progressCb = cb,
              !.userCb = cb,
              !.timer = "pending", !.packages = <<>>,
              !.ncreate = @ + 1]

\* ErrorCode: (code, detail) => { progressCb = undefined; reject(...) }
ErrorCodeSwapped(r, code, detail) ==
    [r EXCEPT !.progressCb = FALSE,
              !.promise = reject_(r.promise,
                                  IF r.cancelled THEN "cancelled" ELSE detail,
                                  code)]
ErrorCodeFirst(r, code, detail) ==
    [r EXCEPT !.progressCb = FALSE,
              !.promise = reject_(r.promise, code, detail)]
ErrorCode(r, code, detail) ==
    [r EXCEPT !.progressCb = FALSE,
              !.promise = reject_(r.promise,
                                  IF r.cancelled THEN "cancelled" ELSE code,
                                  detail)]

\* Finished: (exit) => { progressCb = undefined; resolve(exit) }
FinishedKeepsCallback(r, exit) ==
    [r EXCEPT !.promise = resolve_(r.promise, exit)]
FinishedSuccess(r, exit) ==
    [r EXCEPT !.progressCb = FALSE,
              !.promise = resolve_(r.promise, EXIT_SUCCESS)]
Finished(r, exit) ==
    [r EXCEPT !.progressCb = FALSE,
              !.promise = resolve_(r.promise, exit)]

\* .catch(ex => { progressCb = undefined; reject(ex) })
catchRetry(r, ex) ==
    IF r.pc = "creating"
    THEN [r EXCEPT !.ncreate = @ + 1]
    ELSE [r EXCEPT !.pc = "failed", !.progressCb = FALSE,
                   !.promise = reject_(r.promise, ex[1], ex[2])]
catch(r, ex) ==
    [r EXCEPT !.pc = "failed", !.progressCb = FALSE,
              !.promise = reject_(r.promise, ex[1], ex[2])]

\* the caller's Package handler (searchNames, resolve): push onto the accumulator
PackageUnshift(r, info, packageId) ==
    [r EXCEPT !.packages = <<[id |-> packageId, installed |-> (info = INFO_INSTALLED)]>>
                           \o r.packages]
Package(r, info, packageId) ==
    [r EXCEPT !.packages = Append(r.packages,
                  [id |-> packageId, installed |-> (info = INFO_INSTALLED)])]

\* waiting = allowWaitStatus && (status === STATUS_WAIT || status === STATUS_WAITING_FOR_LOCK)
IsWaitStatus(s) == s = STATUS_WAIT \/ s = STATUS_WAITING_FOR_LOCK

waitingNoGrace(allow, s) == IsWaitStatus(s)
waiting(allow, s) == allow /\ IsWaitStatus(s)

\* 'Percentage' in props && props.Percentage <= 100
percentageOrZero(old, props) ==
    IF "Percentage" \in DOMAIN props /\ props.Percentage <= MaxPercentage
    THEN props.Percentage ELSE 0
percentageAny(old, props) ==
    IF "Percentage" \in DOMAIN props THEN props.Percentage ELSE old
percentage(old, props) ==
    IF "Percentage" \in DOMAIN props /\ props.Percentage <= MaxPercentage
    THEN props.Percentage ELSE old

\* function changed(props, transactionPath): a no-op once progressCb is undefined
changedCancelOnReport(r, props) ==
    IF r.progressCb
    THEN LET s == IF "Status" \in DOMAIN props THEN props.Status ELSE r.status
         IN [r EXCEPT !.status = s,
                      !.progressData =
                          [waiting |-> waiting(r.allowWaitStatus, s),
                           cancel |-> IF "AllowCancel" \in DOMAIN props
                                      THEN TRUE
                                      ELSE r.progressData.cancel,
                           percentage |-> percentage(r.progressData.percentage, props)]]
    ELSE r
changed(r, props) ==
    IF r.progressCb
    THEN LET s == IF "Status" \in DOMAIN props THEN props.Status ELSE r.status
         IN [r EXCEPT !.status = s,
                      !.progressData =
                          [waiting |-> waiting(r.allowWaitStatus, s),
                           cancel |-> IF "AllowCancel" \in DOMAIN props
                                      THEN props.AllowCancel
                                      ELSE r.progressData.cancel,
                           percentage |-> percentage(r.progressData.percentage, props)]]
    ELSE r

\* does this call of changed() invoke progressCb(progressData)?
Calls(r) == r.progressCb

\* ------------------------------------------------------- bus connection
\* getDbusClient(): the cached client, or a new one when the cache is null
getDbusClientFresh == nclients + 1
getDbusClient == IF dbusClient = 0 THEN nclients + 1 ELSE dbusClient

\* the effect of a getDbusClient() call on the cache (call() goes through it)
call ==
    /\ dbusClient' = getDbusClient
    /\ nclients' = IF dbusClient = 0 THEN nclients + 1 ELSE nclients

\* ---------------------------------------------------------------- strings
\* A string is the sequence of its characters.
\* String.prototype.split(sep), for a separator of one character
RECURSIVE split(_, _)
split(s, sep) ==
    IF \E i \in 1..Len(s) : s[i] = sep
    THEN LET i == CHOOSE k \in 1..Len(s) :
                      s[k] = sep /\ \A j \in 1..(k - 1) : s[j] # sep
         IN  <<SubSeq(s, 1, i - 1)>> \o split(SubSeq(s, i + 1, Len(s)), sep)
    ELSE <<s>>

\* Array.prototype.indexOf(x), zero-based, -1 when absent
indexOfAbsent(arr, x) == 0 - 1
indexOf(arr, x) ==
    IF \E i \in 1..Len(arr) : arr[i] = x
    THEN (CHOOSE k \in 1..Len(arr) :
              arr[k] = x /\ \A j \in 1..(k - 1) : arr[j] # x) - 1
    ELSE 0 - 1

\* String.prototype.includes(sub)
includesAtStart(s, sub) == Len(s) >= Len(sub) /\ SubSeq(s, 1, Len(sub)) = sub
includes(s, sub) ==
    \E i \in 1..(Len(s) - Len(sub) + 1) : SubSeq(s, i, i + Len(sub) - 1) = sub

\* the literals 'installed' and 'ro'
installed == <<"i", "n", "s", "t", "a", "l", "l", "e", "d">>
ro == <<"r", "o">>

\* --------------------------------------------------------- parsePackageId
\* parts[i] || '' (i counted from zero): a missing part reads as ''
part(parts, i) == IF i + 1 <= Len(parts) THEN parts[i + 1] ELSE <<>>

\* parsePackageId(packageId): a TypeError for a non-string, else the record
parsePackageId(packageId) ==
    IF packageId.type # "string"
    THEN [threw |-> TRUE, id |-> <<>>, name |-> <<>>, version |-> <<>>, arch |-> <<>>,
          repo |-> <<>>, installed |-> FALSE]
    ELSE LET parts == split(packageId.chars, ";")
         IN  [threw |-> FALSE,
              id |-> packageId.chars,
              name |-> part(parts, 0),
              version |-> part(parts, 1),
              arch |-> part(parts, 2),
              repo |-> part(parts, 3),
              installed |-> IF Len(parts) >= 4
                            THEN includes(parts[4], installed) ELSE FALSE]

\* --------------------------------------------------------- watchTransaction
Listener(kind, path, member, handler) ==
    [kind |-> kind, path |-> path, member |-> member, handler |-> handler]

\* the signal handlers cancellableTransaction passes on, per operation method
SignalHandlers(method) ==
    IF method \in {"SearchNames", "Resolve"}
    THEN {"ErrorCode", "Finished", "Package"}
    ELSE {"ErrorCode", "Finished"}

\* everything watchTransaction registers on the client for transactionPath
watchTransactionNoClose(transactionPath, signalHandlers) ==
    {Listener("subscribe", transactionPath, h, h) : h \in signalHandlers}
    \cup {Listener("watch", transactionPath, "", ""),
          Listener("notify", transactionPath, "", "notifyHandler"),
          Listener("subscribe", transactionPath, "Finished", "cleanup")}
watchTransaction(transactionPath, signalHandlers) ==
    {Listener("close", transactionPath, "", "onClose")}
    \cup {Listener("subscribe", transactionPath, h, h) : h \in signalHandlers}
    \cup {Listener("watch", transactionPath, "", ""),
          Listener("notify", transactionPath, "", "notifyHandler"),
          Listener("subscribe", transactionPath, "Finished", "cleanup")}

\* subscriptions.forEach(s => s.remove()); client.removeEventListener('close', onClose)
\* (the 'notify' listener was added with addEventListener and is in no list)
cleanup(L) == {l \in L : l.kind = "notify"}

\* function onClose(event, ex)
onCloseFinishedOnly(r) == Finished(r, EXIT_FAILED)
onClose(r) == Finished(ErrorCode(r, "close", "PackageKit crashed"), EXIT_FAILED)

\* client.subscribe({ interface, path, member }, ...): the match rule of a subscription
MatchesAnyPath(l, path, member) == l.kind = "subscribe" /\ l.member = member
Matches(l, path, member) ==
    l.kind = "subscribe" /\ l.path = path /\ l.member = member

\* the 'notify' listener: reply?.detail?.[transactionPath]?.[TRANSACTION_INTERFACE]
NotifyMatches(l, path) == l.kind = "notify" /\ l.path = path

\* ------------------------------------------------------------- messages
Msg(member, args) == [member |-> member, args |-> args]

\* the handlers of slot t that a message for `path` reaches, on the client
\* the message arrives on
Handlers(t, path, msg) ==
    IF tx[t].client # tx[path].client THEN {}
    ELSE IF msg.member = "notify"
         THEN {l.handler : l \in {k \in listeners[t] : NotifyMatches(k, path)}}
         ELSE {l.handler : l \in {k \in listeners[t] : Matches(k, path, msg.member)}}

\* the closure of slot t after the handlers ran (signal handler first; the
\* cleanup subscription was registered last and changes no closure variable)
Handle(t, path, msg) ==
    LET H == Handlers(t, path, msg)
        r == tx[t]
    IN  IF "notifyHandler" \in H THEN changed(r, msg.args[1])
        ELSE IF "Package" \in H THEN Package(r, msg.args[1], msg.args[2])
        ELSE IF "ErrorCode" \in H THEN ErrorCode(r, msg.args[1], msg.args[2])
        ELSE IF "Finished" \in H THEN Finished(r, msg.args[1])
        ELSE r

\* ------------------------------------------------------ facade operations
\* resolve(name).then(packageId => cancellableTransaction('InstallPackages', ...)):
\* runs when the Resolve promise of slot t fulfils with at least one id
StartsInstall(old, new, t) ==
    /\ old[t].op = "resolve"
    /\ old[t].promise.state = "pending"
    /\ new[t].promise.state = "resolved"
    /\ new[t].packages # <<>>

\* return ids[0]
lastId(ids) == ids[Len(ids)].id
firstId(ids) == ids[1].id

\* the method of the second transaction of installPackage / removePackage
SecondMethod(op) == IF op = "remove" THEN "RemovePackages" ELSE "InstallPackages"

then(old, new) ==
    [t \in Txns |->
        IF \E h \in Txns : StartsInstall(old, new, h) /\ old[h].next = t
        THEN LET h == CHOOSE k \in Txns : StartsInstall(old, new, k) /\ old[k].next = t
             IN  [cancellableTransaction(new[t], new[t].op, SecondMethod(new[t].op),
                                         new[t].userCb, getDbusClient)
                     EXCEPT !.arg = firstId(new[h].packages)]
        ELSE new[t]]

\* the promise searchNames returns: cancellableTransaction(...).then(() => packages)
searchNames(t) ==
    IF tx[t].promise.state = "resolved"
    THEN [state |-> "fulfilled", value |-> tx[t].packages, code |-> ""]
    ELSE IF tx[t].promise.state = "rejected"
    THEN [state |-> "rejected", value |-> <<>>, code |-> tx[t].promise.code]
    ELSE [state |-> "pending", value |-> <<>>, code |-> ""]

\* the promise resolve(name) returns: the first id, or a 'not-found' error
resolveEmpty(t) ==
    IF tx[t].promise.state = "resolved"
    THEN [state |-> "fulfilled",
          value |-> IF Len(tx[t].packages) = 0 THEN <<>>
                    ELSE <<firstId(tx[t].packages)>>,
          code |-> ""]
    ELSE IF tx[t].promise.state = "rejected"
    THEN [state |-> "rejected", value |-> <<>>, code |-> tx[t].promise.code]
    ELSE [state |-> "pending", value |-> <<>>, code |-> ""]
resolve(t) ==
    IF tx[t].promise.state = "resolved"
    THEN IF Len(tx[t].packages) = 0
         THEN [state |-> "rejected", value |-> <<>>, code |-> "not-found"]
         ELSE [state |-> "fulfilled", value |-> <<firstId(tx[t].packages)>>, code |-> ""]
    ELSE IF tx[t].promise.state = "rejected"
    THEN [state |-> "rejected", value |-> <<>>, code |-> tx[t].promise.code]
    ELSE [state |-> "pending", value |-> <<>>, code |-> ""]

\* the promise installPackage returns, for the call whose Resolve runs in slot t
installPackage(t) ==
    LET first == resolve(t)
        second == tx[tx[t].next].promise
    IN  IF first.state # "fulfilled" THEN [first EXCEPT !.value = <<>>]
        ELSE IF second.state = "resolved"
        THEN [state |-> "fulfilled", value |-> <<>>, code |-> ""]
        ELSE IF second.state = "rejected"
        THEN [state |-> "rejected", value |-> <<>>, code |-> second.code]
        ELSE [state |-> "pending", value |-> <<>>, code |-> ""]

\* the promise removePackage returns: the same chain as installPackage, with
\* RemovePackages as the second transaction
removePackage(t) == installPackage(t)

\* ---------------------------------------------------------------- detect
\* options.split(',').indexOf('ro') >= 0
readOnly(options) == indexOf(split(options, ","), ro) >= 0

IdleProbe == [pc |-> "idle", spawned |-> FALSE, options |-> <<>>,
              gets |-> 0, result |-> <<>>]
NotParsed == [packageId |-> [type |-> "undefined", chars |-> <<>>],
              applied |-> FALSE,
              ret |-> parsePackageId([type |-> "undefined", chars |-> <<>>])]

\* ------------------------------------------------------------- utilities
\* groups.ts: the ids shown first, in this order
PRIORITY_GROUPS ==
    <<"admin-tools", "servers", "network", "system", "security", "programming",
      "virtualization">>

\* display names of groups, as sequences of characters
Names ==
    [Administration |->
         <<"A", "d", "m", "i", "n", "i", "s", "t", "r", "a", "t", "i", "o", "n">>,
     Education |-> <<"E", "d", "u", "c", "a", "t", "i", "o", "n">>,
     Fonts |-> <<"F", "o", "n", "t", "s">>,
     Games |-> <<"G", "a", "m", "e", "s">>,
     Maps |-> <<"M", "a", "p", "s">>,
     Network |-> <<"N", "e", "t", "w", "o", "r", "k">>,
     Servers |-> <<"S", "e", "r", "v", "e", "r", "s">>]

\* group-like objects { id, name }: three priority groups whose names are not
\* in priority order, three other groups, and a caller's group that has the
\* display name of another
Groups ==
    { [id |-> "servers", name |-> Names.Servers],
      [id |-> "admin-tools", name |-> Names.Administration],
      [id |-> "network", name |-> Names.Network],
      [id |-> "games", name |-> Names.Games],
      [id |-> "fonts", name |-> Names.Fonts],
      [id |-> "education", name |-> Names.Education],
      [id |-> "maps", name |-> Names.Maps],
      [id |-> "custom", name |-> Names.Games] }

\* the collation order of letters: a letter and its capital share a primary
\* weight, the lower-case letter comes first at the third level
Collation ==
    <<"a", "A", "b", "B", "c", "C", "d", "D", "e", "E", "f", "F", "g", "G",
      "h", "H", "i", "I", "j", "J", "k", "K", "l", "L", "m", "M", "n", "N",
      "o", "O", "p", "P", "q", "Q", "r", "R", "s", "S", "t", "T", "u", "U",
      "v", "V", "w", "W", "x", "X", "y", "Y", "z", "Z">>

\* comparison of two sequences of weights: -1, 0 or 1
RECURSIVE compareKeys(_, _)
compareKeys(x, y) ==
    IF x = <<>> /\ y = <<>> THEN 0
    ELSE IF x = <<>> THEN 0 - 1
    ELSE IF y = <<>> THEN 1
    ELSE IF Head(x) < Head(y) THEN 0 - 1
    ELSE IF Head(x) > Head(y) THEN 1
    ELSE compareKeys(Tail(x), Tail(y))

\* String.prototype.localeCompare(b) on names made of letters
localeCompareEqual(a, b) == 0
localeCompare(a, b) ==
    LET primary(c) == indexOf(Collation, c) \div 2
        tertiary(c) == indexOf(Collation, c) % 2
        p == compareKeys([i \in 1..Len(a) |-> primary(a[i])],
                         [i \in 1..Len(b) |-> primary(b[i])])
    IN  IF p # 0 THEN p
        ELSE compareKeys([i \in 1..Len(a) |-> tertiary(a[i])],
                         [i \in 1..Len(b) |-> tertiary(b[i])])

\* the comparator passed to groups.sort
compare(a, b) ==
    LET aPriority == indexOf(PRIORITY_GROUPS, a.id)
        bPriority == indexOf(PRIORITY_GROUPS, b.id)
    IN  IF aPriority # 0 - 1 /\ bPriority = 0 - 1 THEN 0 - 1
        ELSE IF aPriority = 0 - 1 /\ bPriority # 0 - 1 THEN 1
        ELSE IF aPriority # 0 - 1 /\ bPriority # 0 - 1
             THEN aPriority - bPriority
        ELSE localeCompare(a.name, b.name)

\* Array.prototype.sort(compare): a stable sort; x goes after the last
\* element that does not compare greater than it
RECURSIVE insert(_, _)
insert(s, x) ==
    IF s = <<>> THEN <<x>>
    ELSE IF compare(s[Len(s)], x) > 0
         THEN Append(insert(SubSeq(s, 1, Len(s) - 1), x), s[Len(s)])
    ELSE Append(s, x)

\* sortGroupsByPriority(groups): groups.sort(compare), which sorts the array
\* in place and returns it
RECURSIVE sortGroupsByPriority(_)
sortGroupsByPriority(groups) ==
    IF groups = <<>> THEN <<>>
    ELSE insert(sortGroupsByPriority(SubSeq(groups, 1, Len(groups) - 1)),
                groups[Len(groups)])

\* arg is the content of the array at the call, groups its content now
NotSorted == [arg |-> <<>>, groups |-> <<>>, applied |-> FALSE, ret |-> <<>>]
\* values of JavaScript: strings, numbers, plain objects, null, undefined
Str(v) == [type |-> "string", v |-> v]
Num(v) == [type |-> "number", v |-> v]
PlainObject == [type |-> "object"]
Null == [type |-> "null"]
Undefined == [type |-> "undefined"]

\* String(value)
String(value) ==
    CASE value.type = "string" -> value.v
      [] value.type = "number" ->
             (CASE value.v = 0 -> "0" [] value.v = 4 -> "4" [] value.v = 42 -> "42")
      [] value.type = "object" -> "[object Object]"
      [] value.type = "null" -> "null"
      [] value.type = "undefined" -> "undefined"

\* the codes of a TransactionError: the mapped ones, an unmapped one, and
\* the numeric codes that the ErrorCode signal carries
KnownCodes ==
    {"cancelled", "not-found", "already-installed", "dep-resolution-failed",
     "cannot-remove-system-package", "no-network", "package-download-failed",
     "transaction-error"}

\* the arguments of getErrorMessage(error: unknown)
Errors ==
    {[type |-> "TransactionError", code |-> c, detail |-> d] :
         c \in {Str(k) : k \in KnownCodes \cup {"unknown-code"}}
                   \cup {Num(4), Num(42)},
         d \in {"", "Some detail message", "Transaction was cancelled",
                "Package not found: x", "An error occurred"}}
    \cup {[type |-> "Error", message |-> m] :
              m \in {"", "Standard error message", "Package not found"}}
    \cup {Str("String error"), Str(""), Num(0), Num(42), PlainObject, Null,
          Undefined}

\* const errorMessages: Record<string, string>
errorMessages ==
    [c \in KnownCodes |->
        CASE c = "cancelled" -> "Operation was cancelled"
          [] c = "not-found" -> "Package not found"
          [] c = "already-installed" -> "Package is already installed"
          [] c = "dep-resolution-failed" -> "Could not resolve dependencies"
          [] c = "cannot-remove-system-package" -> "Cannot remove system package"
          [] c = "no-network" -> "No network connection"
          [] c = "package-download-failed" -> "Failed to download package"
          [] c = "transaction-error" -> "Transaction failed"]

\* getErrorMessage(error)
getErrorMessageNoDefault(error) ==
    IF error.type = "TransactionError"
    THEN IF String(error.code) \in DOMAIN errorMessages
         THEN errorMessages[String(error.code)]
         ELSE error.detail
    ELSE IF error.type = "Error" THEN error.message
    ELSE String(error)
getErrorMessage(error) ==
    IF error.type = "TransactionError"
    THEN IF String(error.code) \in DOMAIN errorMessages
         THEN errorMessages[String(error.code)]
         ELSE IF error.detail # "" THEN error.detail
         ELSE "An error occurred"
    ELSE IF error.type = "Error" THEN error.message
    ELSE String(error)

NoMessage == [error |-> Undefined, applied |-> FALSE, ret |-> ""]

\* ------------------------------------------------------------- components
\* what a call of the PackageKit wrapper may be rejected with: a
\* TransactionError or the error object of a failed D-Bus call
Rejections ==
    {[type |-> "TransactionError", code |-> Str("not-found"),
      detail |-> "Package not found: x"],
     [type |-> "TransactionError", code |-> Num(4), detail |-> ""],
     PlainObject}

\* the entries of PK.getDetails([packageId])
Packages == {[type |-> "package", installed |-> i] : i \in BOOLEAN}

\* PackageDetails: the useState values, the await loadPackageDetails or a
\* handler is suspended at (pc), and a record of the current or last load:
\* how GetDetails ended (got, found) and which secondary lookups failed
IdleDetails ==
    [pc |-> "unmounted", loading |-> TRUE, error |-> Null, pkg |-> Null,
     dependencies |-> <<>>, reverseDeps |-> <<>>, files |-> <<>>,
     operating |-> FALSE, operations |-> 0,
     got |-> "none", found |-> Null, failed |-> {}, errorFrom |-> "none"]

\* loadPackageDetails up to its first await: setLoading(true); setError(null)
loadPackageDetails(d) ==
    [d EXCEPT !.pc = "getDetails", !.loading = TRUE, !.error = Null,
              !.got = "none", !.found = Null, !.failed = {},
              !.errorFrom = "none"]

\* the finally block of loadPackageDetails, and those of the handler that
\* awaited it: setLoading(false); setOperating(false)
finally(d) == [d EXCEPT !.pc = "idle", !.loading = FALSE, !.operating = FALSE]

\* the outer catch of loadPackageDetails: setError(getErrorMessage(err))
catchDetails(d, err) ==
    finally([d EXCEPT !.error = Str(getErrorMessage(err)),
                      !.errorFrom = "load"])

\* the inner catch of a secondary lookup: console.warn(...)
warnSetsError(d, err) == [d EXCEPT !.error = Str(getErrorMessage(err))]
warn(d, err) == d

\* the render of PackageDetails: spinner, error state, or the details
Truthy(value) ==
    ~(value.type \in {"null", "undefined"} \/ (value.type = "string" /\ value.v = ""))
DetailsView(d) ==
    IF d.loading THEN "spinner"
    ELSE IF Truthy(d.error) \/ ~Truthy(d.pkg) THEN "error"
    ELSE "details"
\* the segments of a location path
Segments == {"group", "package", "x"}

\* cockpit.location: { path, options }
Location(path, group) == [path |-> path, options |-> [group |-> group]]

\* const isInvalidPath = ...
isInvalidPathLong(path) == Len(path) > 2
isInvalidPath(path) ==
    \/ Len(path) > 2
    \/ (Len(path) = 2 /\ path[1] # "group" /\ path[1] # "package")
    \/ Len(path) = 1

\* the views the render of PackageManager includes for a path
Views(path) ==
    {v \in {"groups"} : Len(path) = 0}
    \cup {v \in {"list"} : Len(path) = 2 /\ path[1] = "group"}
    \cup {v \in {"details"} : Len(path) = 2 /\ path[1] = "package"}

\* cockpit.location.go(path, options): the location changes and the
\* 'locationchanged' event is due
go(n, path, group) ==
    [n EXCEPT !.location = Location(path, group), !.changed = TRUE,
              !.redirecting = FALSE]

\* PackageManager mounted at the root: cockpit.location, the copy held by
\* usePageLocation (state), whether 'locationchanged' is due (changed) and
\* whether the path effect is due (effect); redirecting marks a location set
\* by the invalid-path effect, redirected a state that came from it
IdleNav ==
    [location |-> Location(<<>>, Undefined), state |-> Location(<<>>, Undefined),
     changed |-> FALSE, effect |-> TRUE, redirecting |-> FALSE,
     redirected |-> FALSE]
\* what the search field may hold: letters, with blanks before and after
IsQuery(q) ==
    /\ Len(q) <= MaxQuery
    /\ \A i, j, k \in 1..Len(q) :
           i < j /\ j < k /\ q[i] = "a" /\ q[k] = "a" => q[j] = "a"

\* the values one edit of the field may turn q into: a character typed or
\* deleted at either end, or the field cleared (onClear)
Edits(q) ==
    {v \in {<<>>}
            \cup {Append(q, c) : c \in {"a", " "}}
            \cup {<<c>> \o q : c \in {"a", " "}}
            \cup (IF q = <<>> THEN {} ELSE {Tail(q), SubSeq(q, 1, Len(q) - 1)}) :
        IsQuery(v)}

\* String.prototype.trim()
RECURSIVE trim(_)
trim(q) ==
    IF q # <<>> /\ Head(q) = " " THEN trim(Tail(q))
    ELSE IF q # <<>> /\ q[Len(q)] = " " THEN trim(SubSeq(q, 1, Len(q) - 1))
    ELSE q

\* GroupList: searchQuery, manualSearchTriggered, searchResults (the empty
\* list, or the detailed results of one query), searching, searchError; the
\* debounce timer with the query its callback closed over; the searches
\* started so far, each with its query and the await it is suspended at.
\* entered: Enter was pressed on the present content of the field;
\* sinceShort: Enter was pressed on a query of two or more characters and the
\* query has had two or more characters ever since; issue: those two marks
\* as they were when the last search started; unchanged: the field has not
\* been edited since the last search started
IdleSearch ==
    [searchQuery |-> <<>>, manualSearchTriggered |-> FALSE,
     searchResults |-> <<>>, searching |-> FALSE, searchError |-> Null,
     timer |-> <<>>, runs |-> <<>>,
     entered |-> FALSE, sinceShort |-> FALSE, unchanged |-> FALSE,
     issue |-> [entered |-> FALSE, sinceShort |-> FALSE, current |-> TRUE]]

\* one run of the debounced search effect: the cleanup of the previous run
\* (clearTimeout), then the body, with manualSearchTriggered as rendered
effectBodyResetOnEmpty(s) ==
    LET trimmedQuery == trim(s.searchQuery)
        s0 == [s EXCEPT !.timer = <<>>]
        shouldAutoSearch == Len(trimmedQuery) >= 4
        shouldManualSearch == Len(trimmedQuery) >= 2 /\ s.manualSearchTriggered
    IN  IF Len(trimmedQuery) = 0
        THEN [s0 EXCEPT !.searchResults = <<>>, !.searchError = Null,
                        !.searching = FALSE, !.manualSearchTriggered = FALSE]
        ELSE IF ~shouldAutoSearch /\ ~shouldManualSearch
             THEN IF ~s.manualSearchTriggered
                  THEN [s0 EXCEPT !.searchResults = <<>>, !.searchError = Null,
                                  !.searching = FALSE]
                  ELSE [s0 EXCEPT !.searching = FALSE]
        ELSE [s0 EXCEPT !.searching = TRUE, !.searchError = Null,
                        !.timer = <<trimmedQuery>>]
effectBody(s) ==
    LET trimmedQuery == trim(s.searchQuery)
        s0 == [s EXCEPT !.timer = <<>>]
        s1 == IF Len(trimmedQuery) < 2 /\ s.manualSearchTriggered
              THEN [s0 EXCEPT !.manualSearchTriggered = FALSE]
              ELSE s0
        shouldAutoSearch == Len(trimmedQuery) >= 4
        shouldManualSearch == Len(trimmedQuery) >= 2 /\ s.manualSearchTriggered
    IN  IF Len(trimmedQuery) = 0
        THEN [s0 EXCEPT !.searchResults = <<>>, !.searchError = Null,
                        !.searching = FALSE, !.manualSearchTriggered = FALSE]
        ELSE IF ~shouldAutoSearch /\ ~shouldManualSearch
             THEN IF ~s.manualSearchTriggered
                  THEN [s1 EXCEPT !.searchResults = <<>>, !.searchError = Null,
                                  !.searching = FALSE]
                  ELSE [s1 EXCEPT !.searching = FALSE]
        ELSE [s1 EXCEPT !.searching = TRUE, !.searchError = Null,
                        !.timer = <<trimmedQuery>>]

\* useEffect(..., [searchQuery, manualSearchTriggered]) after a render in
\* which a dependency changed; it runs again if it changed one itself
useEffect(s) ==
    LET s1 == effectBody(s)
    IN  IF s1.manualSearchTriggered # s.manualSearchTriggered
        THEN effectBody(s1)
        ELSE s1

\* the end of the timeout callback: catch, and finally { setSearching(false) }
searchFailed(s, err) ==
    [s EXCEPT !.searchError = Str(getErrorMessage(err)), !.searchResults = <<>>,
              !.searching = FALSE]
searchDone(s, results) ==
    [s EXCEPT !.searchResults = results, !.searchError = Null,
              !.searching = FALSE]
\* the groups PackageList is opened for, and the packages of each
ListGroups == {"games", "fonts"}
ListPackages == {"x", "y", "z"}

\* what PK.searchGroups([groupId]) returns: the packages of the group with
\* their installed status on the system
searchGroups(groupId, system) ==
    {[name |-> p, installed |-> system[p]] :
        p \in {q \in ListPackages :
                  groupId = IF q = "z" THEN "fonts" ELSE "games"}}

\* PackageList and the cache of PackageManager: the useState values, the
\* await a function is suspended at (pc), the cache entry of each group
\* (none, or one list), the installed status of each package on the system,
\* and the last operation that completed (done)
IdleList ==
    [pc |-> "unmounted", groupId |-> "games", loading |-> TRUE, error |-> Null,
     packages |-> {}, operatingOn |-> Null,
     cache |-> [g \in ListGroups |-> <<>>],
     system |-> [p \in ListPackages |-> p = "x"],
     operations |-> 0, done |-> <<>>]

\* loadPackages up to its first await: the cached list if the cache has the
\* group, otherwise PK.searchGroups is called
loadPackages(l) ==
    IF l.cache[l.groupId] # <<>>
    THEN [l EXCEPT !.pc = "idle", !.error = Null,
                   !.packages = l.cache[l.groupId][1],
                   !.loading = FALSE, !.operatingOn = Null]
    ELSE [l EXCEPT !.pc = "searchGroups", !.error = Null, !.loading = TRUE]

\* ------------------------------------------------------------------ Init
NoObs == [cbCount |-> 0, snap |-> NewProgressData, statusRecv |-> 0,
          percentRecv |-> 0, allowRecv |-> <<>>, pctOrdered |-> TRUE,
          exitRecv |-> 0, errRecv |-> FALSE, earlyCancel |-> FALSE,
          supplied |-> {}, callErr |-> <<>>]

Init ==
    /\ dbusClient = 0
    /\ nclients = 0
    /\ closes = 0
    /\ tx = [t \in Txns |-> IdleTx]
    /\ listeners = [t \in Txns |-> {}]
    /\ svc = [t \in Txns |-> "none"]
    /\ wire = [t \in Txns |-> <<>>]
    /\ emitted = [notify |-> 0, package |-> 0, sent |-> [t \in Txns |-> <<>>]]
    /\ obs = [t \in Txns |-> NoObs]
    /\ probe = IdleProbe
    /\ parsed = NotParsed
    /\ sorted = NotSorted
    /\ message = NoMessage
    /\ details = IdleDetails
    /\ nav = IdleNav
    /\ search = IdleSearch
    /\ list = IdleList

\* the start of the runs that apply parsePackageId to one argument
InitParse ==
    /\ dbusClient = 0
    /\ nclients = 0
    /\ closes = 0
    /\ tx = [t \in Txns |-> IdleTx]
    /\ listeners = [t \in Txns |-> {}]
    /\ svc = [t \in Txns |-> "none"]
    /\ wire = [t \in Txns |-> <<>>]
    /\ emitted = [notify |-> 0, package |-> 0, sent |-> [t \in Txns |-> <<>>]]
    /\ obs = [t \in Txns |-> NoObs]
    /\ probe = IdleProbe
    /\ \E id \in PackageIds : parsed = [NotParsed EXCEPT !.packageId = id]
    /\ sorted = NotSorted
    /\ message = NoMessage
    /\ details = IdleDetails
    /\ nav = IdleNav
    /\ search = IdleSearch
    /\ list = IdleList

\* the start of the runs that apply sortGroupsByPriority to one array
InitSort ==
    /\ dbusClient = 0
    /\ nclients = 0
    /\ closes = 0
    /\ tx = [t \in Txns |-> IdleTx]
    /\ listeners = [t \in Txns |-> {}]
    /\ svc = [t \in Txns |-> "none"]
    /\ wire = [t \in Txns |-> <<>>]
    /\ emitted = [notify |-> 0, package |-> 0, sent |-> [t \in Txns |-> <<>>]]
    /\ obs = [t \in Txns |-> NoObs]
    /\ probe = IdleProbe
    /\ parsed = NotParsed
    /\ \E gs \in UNION {[1..n -> Groups] : n \in 0..MaxGroups} :
           sorted = [NotSorted EXCEPT !.arg = gs, !.groups = gs]
    /\ message = NoMessage
    /\ details = IdleDetails
    /\ nav = IdleNav
    /\ search = IdleSearch
    /\ list = IdleList

\* the start of the runs that apply getErrorMessage to one value
InitMessage ==
    /\ dbusClient = 0
    /\ nclients = 0
    /\ closes = 0
    /\ tx = [t \in Txns |-> IdleTx]
    /\ listeners = [t \in Txns |-> {}]
    /\ svc = [t \in Txns |-> "none"]
    /\ wire = [t \in Txns |-> <<>>]
    /\ emitted = [notify |-> 0, package |-> 0, sent |-> [t \in Txns |-> <<>>]]
    /\ obs = [t \in Txns |-> NoObs]
    /\ probe = IdleProbe
    /\ parsed = NotParsed
    /\ sorted = NotSorted
    /\ \E e \in Errors : message = [NoMessage EXCEPT !.error = e]
    /\ details = IdleDetails
    /\ nav = IdleNav
    /\ search = IdleSearch
    /\ list = IdleList

\* --------------------------------------------------------------- actions
\* a caller calls searchNames(query, progressCb?) 
SearchNames(t, cb) ==
    /\ tx[t].pc = "idle"
    /\ \A s \in 1..(t - 1) : tx[s].pc # "idle"      \* slots are taken in order
    /\ tx' = [tx EXCEPT ![t] = cancellableTransaction(@, "searchNames", "SearchNames",
                                                      cb, getDbusClient)]
    /\ call
    /\ UNCHANGED <<closes, listeners, svc, wire, emitted, obs>>
    /\ UNCHANGED aux

\* a caller calls cancellableTransaction(method, arglist, progressCb,
\* signalHandlers) itself: it throws before anything else when a handler for
\* ErrorCode or Finished is supplied
CancellableTransaction(t, method, cb, signalHandlers) ==
    /\ tx[t].pc = "idle"
    /\ \A s \in 1..(t - 1) : tx[s].pc # "idle"
    /\ IF throws(signalHandlers)
       THEN /\ tx' = [tx EXCEPT ![t] = [@ EXCEPT !.op = "direct", !.method = method,
                                                 !.pc = "thrown"]]
            /\ UNCHANGED <<dbusClient, nclients>>
       ELSE /\ tx' = [tx EXCEPT ![t] = cancellableTransaction(@, "direct", method,
                                                              cb, getDbusClient)]
            /\ call
    /\ obs' = [obs EXCEPT ![t] = [@ EXCEPT !.supplied = signalHandlers]]
    /\ UNCHANGED <<closes, listeners, svc, wire, emitted>>
    /\ UNCHANGED aux

\* a caller calls installPackage(name, progressCb?): resolve(name) starts in
\* slot t, and slot t2 is kept for the InstallPackages transaction
InstallPackage(t, t2, cb) ==
    /\ t # t2
    /\ tx[t].pc = "idle"
    /\ tx[t2].pc = "idle"
    /\ tx' = [tx EXCEPT ![t] = [cancellableTransaction(@, "resolve", "Resolve",
                                                       cb, getDbusClient)
                                    EXCEPT !.next = t2],
                        ![t2] = [@ EXCEPT !.op = "install", !.pc = "reserved",
                                          !.userCb = cb]]
    /\ call
    /\ UNCHANGED <<closes, listeners, svc, wire, emitted, obs>>
    /\ UNCHANGED aux

\* a caller calls removePackage(name, progressCb?): as installPackage, with
\* slot t2 kept for the RemovePackages transaction
RemovePackage(t, t2, cb) ==
    /\ t # t2
    /\ tx[t].pc = "idle"
    /\ tx[t2].pc = "idle"
    /\ tx' = [tx EXCEPT ![t] = [cancellableTransaction(@, "resolve", "Resolve",
                                                       cb, getDbusClient)
                                    EXCEPT !.next = t2],
                        ![t2] = [@ EXCEPT !.op = "remove", !.pc = "reserved",
                                          !.userCb = cb]]
    /\ call
    /\ UNCHANGED <<closes, listeners, svc, wire, emitted, obs>>
    /\ UNCHANGED aux

\* CreateTransaction returns the path; the .then callback runs watchTransaction
CreateReturn(t) ==
    /\ tx[t].pc = "creating"
    /\ dbusClient # 0
    /\ tx[t].callClient = dbusClient
    /\ tx' = [tx EXCEPT ![t] = [@ EXCEPT !.pc = "watching", !.path = t,
                                         !.client = getDbusClient]]
    /\ listeners' = [listeners EXCEPT
                        ![t] = watchTransaction(t, SignalHandlers(tx[t].method))]
    /\ svc' = [svc EXCEPT ![t] = "created"]
    /\ call
    /\ UNCHANGED <<closes, wire, emitted, obs>>
    /\ UNCHANGED aux

\* client.watch(path) resolves; the .then callback issues the operation's method
\* call, which the service accepts (the transaction runs) or refuses. When the
\* call returns later, `.then(() => transactionPath)` runs no code of the
\* closure, so the return is no step of its own.
WatchReturn(t, accept) ==
    /\ tx[t].pc = "watching"
    /\ dbusClient # 0
    /\ tx[t].client = dbusClient
    /\ tx' = [tx EXCEPT ![t] = [@ EXCEPT !.pc = "calling",
                                         !.callClient = getDbusClient,
                                         !.ninvoke = @ + 1]]
    /\ svc' = [svc EXCEPT ![t] = IF accept THEN "running" ELSE @]
    /\ call
    /\ UNCHANGED <<closes, listeners, wire, emitted, obs>>
    /\ UNCHANGED aux

\* a pending remote call is rejected: CreateTransaction at any time (service
\* unreachable), any call once its client has closed, the method call when
\* the service refused it
CallRejected(t, ex) ==
    /\ \/ tx[t].pc = "creating"
       \/ tx[t].pc \in {"watching", "calling"} /\ tx[t].callClient # dbusClient
       \/ tx[t].pc = "calling" /\ svc[t] = "created"
    /\ tx' = then(tx, [tx EXCEPT ![t] = catch(@, ex)])
    /\ obs' = [obs EXCEPT ![t] = [@ EXCEPT !.callErr = ex]]
    /\ UNCHANGED <<dbusClient, nclients, closes, listeners, svc, wire, emitted>>
    /\ UNCHANGED aux

\* the bus forwards a signal of `path` only if some subscription matches it
Forwarded(path, member) ==
    \E t \in Txns : \E l \in listeners[t] :
        tx[t].client = tx[path].client /\ Matches(l, path, member)

Send(path, msg) ==
    /\ Len(wire[path]) < MaxWire
    /\ wire' = [wire EXCEPT ![path] = Append(@, msg)]

\* the service emits Package(info, packageId, summary) for a running transaction
EmitPackage(p, sig) ==
    /\ svc[p] = "running"
    /\ emitted.package < MaxPackages
    /\ Forwarded(p, "Package")
    /\ Send(p, Msg("Package", sig))
    /\ emitted' = [emitted EXCEPT !.package = @ + 1, !.sent[p] = Append(@, sig)]
    /\ UNCHANGED <<dbusClient, nclients, closes, tx, listeners, svc, obs>>
    /\ UNCHANGED aux

\* a watched transaction object changes some of its properties
EmitNotify(p, props) ==
    /\ svc[p] \in {"created", "running", "errored"}
    /\ emitted.notify < MaxNotify
    /\ \E l \in listeners[p] : l.kind = "watch" /\ l.path = p
    /\ Send(p, Msg("notify", <<props>>))
    /\ emitted' = [emitted EXCEPT !.notify = @ + 1]
    /\ UNCHANGED <<dbusClient, nclients, closes, tx, listeners, svc, obs>>
    /\ UNCHANGED aux

\* the service reports ErrorCode(code, detail)
EmitErrorCode(p, err) ==
    /\ svc[p] = "running"
    /\ Forwarded(p, "ErrorCode")
    /\ Send(p, Msg("ErrorCode", err))
    /\ svc' = [svc EXCEPT ![p] = "errored"]
    /\ UNCHANGED <<dbusClient, nclients, closes, tx, listeners, emitted, obs>>
    /\ UNCHANGED aux

\* the service ends the transaction with Finished(exit); after an ErrorCode
\* the exit code is not the success code
EmitFinished(p, exit) ==
    /\ \/ svc[p] = "running"
       \/ svc[p] = "errored" /\ exit # EXIT_SUCCESS
    /\ Forwarded(p, "Finished")
    /\ Send(p, Msg("Finished", <<exit>>))
    /\ svc' = [svc EXCEPT ![p] = "finished"]
    /\ UNCHANGED <<dbusClient, nclients, closes, tx, listeners, emitted, obs>>
    /\ UNCHANGED aux

\* what slot t observes when the message is dispatched to it
Observe(t, path, msg) ==
    LET H == Handlers(t, path, msg)
        o == obs[t]
    IN  IF "notifyHandler" \in H
        THEN [o EXCEPT !.statusRecv = IF "Status" \in DOMAIN msg.args[1]
                                      THEN msg.args[1].Status ELSE @,
                       !.percentRecv = IF "Percentage" \in DOMAIN msg.args[1]
                                       THEN msg.args[1].Percentage ELSE @,
                       !.allowRecv = IF "AllowCancel" \in DOMAIN msg.args[1]
                                     THEN <<msg.args[1].AllowCancel>> ELSE @,
                       !.pctOrdered = IF "Percentage" \in DOMAIN msg.args[1]
                                      THEN @ /\ msg.args[1].Percentage >= o.percentRecv
                                      ELSE @,
                       !.cbCount = IF Calls(tx[t]) THEN @ + 1 ELSE @,
                       !.snap = IF Calls(tx[t])
                                THEN changed(tx[t], msg.args[1]).progressData ELSE @]
        ELSE IF "ErrorCode" \in H THEN [o EXCEPT !.errRecv = TRUE]
        ELSE IF "Finished" \in H THEN [o EXCEPT !.exitRecv = msg.args[1]]
        ELSE o

\* the client dispatches the next message of transaction p to its listeners
Deliver(p) ==
    /\ wire[p] # <<>>
    /\ dbusClient # 0
    /\ tx[p].client = dbusClient
    /\ LET msg == Head(wire[p])
       IN  /\ tx' = then(tx, [t \in Txns |-> Handle(t, p, msg)])
           /\ listeners' = [t \in Txns |->
                               IF "cleanup" \in Handlers(t, p, msg)
                               THEN cleanup(listeners[t]) ELSE listeners[t]]
           /\ obs' = [t \in Txns |-> Observe(t, p, msg)]
    /\ wire' = [wire EXCEPT ![p] = Tail(@)]
    /\ UNCHANGED <<dbusClient, nclients, closes, svc, emitted>>
    /\ UNCHANGED aux

\* setTimeout(() => { allowWaitStatus = true; changed({}, '') }, 1000)
TimerFire(t) ==
    /\ tx[t].timer = "pending"
    /\ LET r == [tx[t] EXCEPT !.timer = "fired", !.allowWaitStatus = TRUE]
       IN  /\ tx' = [tx EXCEPT ![t] = changed(r, NoProps)]
           /\ obs' = [obs EXCEPT ![t] =
                        IF Calls(r)
                        THEN [@ EXCEPT !.cbCount = @ + 1,
                                       !.snap = changed(r, NoProps).progressData]
                        ELSE @]
    /\ UNCHANGED <<dbusClient, nclients, closes, listeners, svc, wire, emitted>>
    /\ UNCHANGED aux

\* the caller invokes the cancel function it found in a progress snapshot:
\* call(transactionPath, TRANSACTION_INTERFACE, 'Cancel', []); cancelled = true
Cancel(t) ==
    /\ obs[t].cbCount > 0
    /\ obs[t].snap.cancel
    /\ ~tx[t].cancelled
    /\ tx' = [tx EXCEPT ![t] = [@ EXCEPT !.cancelled = TRUE]]
    /\ obs' = [obs EXCEPT ![t] =
                 [@ EXCEPT !.earlyCancel = (tx[t].promise.state = "pending")]]
    /\ call
    /\ UNCHANGED <<closes, listeners, svc, wire, emitted>>
    /\ UNCHANGED aux

\* the bus connection is lost: the client dispatches 'close' to its listeners,
\* first the one of getDbusClient, then each transaction's onClose
HasClose(t) ==
    /\ tx[t].client = dbusClient
    /\ \E l \in listeners[t] : l.kind = "close"

Close ==
    /\ dbusClient # 0
    /\ closes < MaxCloses
    /\ closes' = closes + 1
    /\ dbusClient' = 0
    /\ tx' = then(tx, [t \in Txns |-> IF HasClose(t) THEN onClose(tx[t]) ELSE tx[t]])
    /\ obs' = [t \in Txns |->
                 IF HasClose(t)
                 THEN [obs[t] EXCEPT !.errRecv = TRUE, !.exitRecv = EXIT_FAILED]
                 ELSE obs[t]]
    /\ svc' = [t \in Txns |-> IF svc[t] = "none" THEN "none" ELSE "gone"]
    /\ wire' = [t \in Txns |-> <<>>]
    /\ UNCHANGED <<nclients, listeners, emitted>>
    /\ UNCHANGED aux

\* a caller calls detect(): cockpit.spawn(['findmnt', ...]) is started
Detect ==
    /\ probe.pc = "idle"
    /\ probe' = [probe EXCEPT !.pc = "spawn"]
    /\ UNCHANGED <<dbusClient, nclients, closes, tx, listeners, svc, wire,
                   emitted, obs, parsed>>
    /\ UNCHANGED views

\* function dbusDetect(): the Properties.Get call, issued through call()
dbusDetect(p) == [p EXCEPT !.pc = "get", !.gets = @ + 1]

\* findmnt succeeded with `options` on its output: the .then callback
SpawnReturn(options) ==
    /\ probe.pc = "spawn"
    /\ LET p == [probe EXCEPT !.spawned = TRUE, !.options = options]
       IN  IF readOnly(options)
           THEN /\ probe' = [p EXCEPT !.pc = "done", !.result = <<FALSE>>]
                /\ UNCHANGED <<dbusClient, nclients>>
           ELSE /\ probe' = dbusDetect(p)
                /\ call
    /\ UNCHANGED <<closes, tx, listeners, svc, wire, emitted, obs, parsed>>
    /\ UNCHANGED views

\* findmnt failed or is missing: .catch(dbusDetect)
SpawnFail ==
    /\ probe.pc = "spawn"
    /\ probe' = dbusDetect(probe)
    /\ call
    /\ UNCHANGED <<closes, tx, listeners, svc, wire, emitted, obs, parsed>>
    /\ UNCHANGED views

\* the Properties.Get call returns (.then(() => true)) or is rejected, as it
\* is when the connection was lost (.catch(() => false))
GetReturn(ok) ==
    /\ probe.pc = "get"
    /\ dbusClient = 0 => ~ok
    /\ probe' = [probe EXCEPT !.pc = "done", !.result = <<ok>>]
    /\ UNCHANGED <<dbusClient, nclients, closes, tx, listeners, svc, wire,
                   emitted, obs, parsed>>
    /\ UNCHANGED views

\* parsePackageId is applied to the argument
ParsePackageId ==
    /\ ~parsed.applied
    /\ parsed' = [parsed EXCEPT !.applied = TRUE,
                                 !.ret = parsePackageId(parsed.packageId)]
    /\ UNCHANGED <<dbusClient, nclients, closes, tx, listeners, svc, wire,
                   emitted, obs, probe>>
    /\ UNCHANGED views

\* One call of searchNames, with or without a progress callback, against the
\* service and the bus: the whole life of one cancellableTransaction.
Next ==
    \/ \E cb \in BOOLEAN : SearchNames(1, cb)
    \/ CreateReturn(1)
    \/ \E accept \in BOOLEAN : WatchReturn(1, accept)
    \/ \E ex \in CallErrors : CallRejected(1, ex)
    \/ \E sig \in PackageSignals : EmitPackage(1, sig)
    \/ \E props \in PropsSet : EmitNotify(1, props)
    \/ \E err \in ServiceErrors : EmitErrorCode(1, err)
    \/ \E exit \in ExitCodes : EmitFinished(1, exit)
    \/ Deliver(1)
    \/ TimerFire(1)
    \/ Cancel(1)
    \/ Close

Spec == Init /\ [][Next]_vars

\* Calls of searchNames in every slot, running at the same time on the one
\* shared connection; the callers pass no progress callback.
NextConc ==
    \/ \E t \in Txns : SearchNames(t, FALSE)
    \/ \E t \in Txns : CreateReturn(t)
    \/ \E t \in Txns : WatchReturn(t, TRUE)
    \/ \E t \in Txns, ex \in CallErrors : CallRejected(t, ex)
    \/ \E p \in Txns, sig \in PackageSignals : EmitPackage(p, sig)
    \/ \E p \in Txns, err \in ServiceErrors : EmitErrorCode(p, err)
    \/ \E p \in Txns, exit \in ExitCodes : EmitFinished(p, exit)
    \/ \E p \in Txns : Deliver(p)
    \/ \E t \in Txns : TimerFire(t)
    \/ Close

SpecConc == Init /\ [][NextConc]_vars

\* One call of installPackage or removePackage: the Resolve transaction in
\* slot 1, then the InstallPackages / RemovePackages transaction in slot 2.
\* The service reports one error code here; the handling of the other codes
\* is covered by Next.
NextInstall ==
    \/ \E cb \in BOOLEAN : InstallPackage(1, 2, cb)
    \/ RemovePackage(1, 2, FALSE)
    \/ \E t \in Txns : CreateReturn(t)
    \/ \E t \in Txns : WatchReturn(t, TRUE)
    \/ \E t \in Txns : CallRejected(t, <<"not-found", "service unreachable">>)
    \/ \E p \in Txns, sig \in PackageSignals : EmitPackage(p, sig)
    \/ \E p \in Txns, props \in InstallProps : EmitNotify(p, props)
    \/ \E p \in Txns : EmitErrorCode(p, <<"no-network", "network is down">>)
    \/ \E p \in Txns, exit \in ExitCodes : EmitFinished(p, exit)
    \/ \E p \in Txns : Deliver(p)
    \/ \E t \in Txns : TimerFire(t)
    \/ Close

SpecInstall == Init /\ [][NextInstall]_vars

\* One direct call of cancellableTransaction, with handlers of the caller.
NextDirect ==
    \/ \E cb \in BOOLEAN, d \in DirectCalls : CancellableTransaction(1, d[1], cb, d[2])
    \/ CreateReturn(1)
    \/ \E accept \in BOOLEAN : WatchReturn(1, accept)
    \/ \E ex \in CallErrors : CallRejected(1, ex)
    \/ \E sig \in PackageSignals : EmitPackage(1, sig)
    \/ \E props \in InstallProps : EmitNotify(1, props)
    \/ \E err \in ServiceErrors : EmitErrorCode(1, err)
    \/ \E exit \in ExitCodes : EmitFinished(1, exit)
    \/ Deliver(1)
    \/ TimerFire(1)
    \/ Close

SpecDirect == Init /\ [][NextDirect]_vars

\* One call of detect(), against the mount-option probe, the service and the
\* bus connection.
NextDetect ==
    \/ Detect
    \/ \E options \in Outputs : SpawnReturn(options)
    \/ SpawnFail
    \/ \E ok \in BOOLEAN : GetReturn(ok)
    \/ Close

SpecDetect == Init /\ [][NextDetect]_vars

\* parsePackageId applied to each argument of PackageIds.
\* sortGroupsByPriority is applied to the array
SortGroupsByPriority ==
    /\ ~sorted.applied
    /\ sorted' = [sorted EXCEPT !.applied = TRUE,
                                 !.groups = sortGroupsByPriority(sorted.groups),
                                 !.ret = sortGroupsByPriority(sorted.groups)]
    /\ UNCHANGED <<dbusClient, nclients, closes, tx, listeners, svc, wire,
                   emitted, obs, probe, parsed>>
    /\ UNCHANGED <<message, details, nav, search, list>>

\* getErrorMessage is applied to the value
GetErrorMessage ==
    /\ ~message.applied
    /\ message' = [message EXCEPT !.applied = TRUE,
                                   !.ret = getErrorMessage(message.error)]
    /\ UNCHANGED <<dbusClient, nclients, closes, tx, listeners, svc, wire,
                   emitted, obs, probe, parsed>>
    /\ UNCHANGED <<sorted, details, nav, search, list>>

\* ----------------------------------------------------- PackageDetails
\* useEffect(() => { loadPackageDetails() }, [packageId]) on mount
MountDetails ==
    /\ details.pc = "unmounted"
    /\ details' = loadPackageDetails(details)
    /\ UNCHANGED <<dbusClient, nclients, closes, tx, listeners, svc, wire,
                   emitted, obs, probe, parsed>>
    /\ UNCHANGED <<sorted, message, nav, search, list>>

\* await PK.getDetails([packageId]) is rejected
GetDetailsRejected(err) ==
    /\ details.pc = "getDetails"
    /\ details' = catchDetails([details EXCEPT !.got = "failed"], err)
    /\ UNCHANGED <<dbusClient, nclients, closes, tx, listeners, svc, wire,
                   emitted, obs, probe, parsed>>
    /\ UNCHANGED <<sorted, message, nav, search, list>>

\* await PK.getDetails([packageId]) returns: an empty list throws
\* 'Package not found', otherwise setPkg(details[0]) and the lookups start
GetDetailsReturn(ds) ==
    /\ details.pc = "getDetails"
    /\ details' =
           IF Len(ds) = 0
           THEN catchDetails([details EXCEPT !.got = "empty"],
                             [type |-> "Error", message |-> "Package not found"])
           ELSE [details EXCEPT !.pkg = ds[1], !.got = "found",
                                !.found = ds[1], !.pc = "getDependencies"]
    /\ UNCHANGED <<dbusClient, nclients, closes, tx, listeners, svc, wire,
                   emitted, obs, probe, parsed>>
    /\ UNCHANGED <<sorted, message, nav, search, list>>

\* await PK.getDependencies(packageId) returns or is rejected
GetDependenciesReturn(ok, err) ==
    /\ details.pc = "getDependencies"
    /\ details' =
           IF ok
           THEN [details EXCEPT !.dependencies = <<"dep">>,
                                !.pc = "getReverseDependencies"]
           ELSE [warn(details, err) EXCEPT !.failed = @ \cup {"dependencies"},
                                           !.pc = "getReverseDependencies"]
    /\ UNCHANGED <<dbusClient, nclients, closes, tx, listeners, svc, wire,
                   emitted, obs, probe, parsed>>
    /\ UNCHANGED <<sorted, message, nav, search, list>>

\* await PK.getReverseDependencies(packageId) returns or is rejected; the
\* file list is looked up only if details[0].installed
GetReverseDependenciesReturn(ok, err) ==
    /\ details.pc = "getReverseDependencies"
    /\ LET d == IF ok
                THEN [details EXCEPT !.reverseDeps = <<"rdep">>]
                ELSE [warn(details, err) EXCEPT
                          !.failed = @ \cup {"reverseDependencies"}]
       IN  details' = IF details.found.installed
                      THEN [d EXCEPT !.pc = "getFiles"]
                      ELSE finally(d)
    /\ UNCHANGED <<dbusClient, nclients, closes, tx, listeners, svc, wire,
                   emitted, obs, probe, parsed>>
    /\ UNCHANGED <<sorted, message, nav, search, list>>

\* await PK.getFiles(packageId) returns or is rejected
GetFilesReturn(ok, err) ==
    /\ details.pc = "getFiles"
    /\ details' =
           IF ok
           THEN finally([details EXCEPT !.files = <<"file">>])
           ELSE finally([warn(details, err) EXCEPT !.failed = @ \cup {"files"}])
    /\ UNCHANGED <<dbusClient, nclients, closes, tx, listeners, svc, wire,
                   emitted, obs, probe, parsed>>
    /\ UNCHANGED <<sorted, message, nav, search, list>>

\* handleInstall, from the rendered details: setOperating(true);
\* setError(null); await PK.installPackage(pkg.name, ...)
DetailsHandleInstall ==
    /\ details.pc = "idle"
    /\ DetailsView(details) = "details"
    /\ details.operations < MaxOperations
    /\ details' = [details EXCEPT !.pc = "installPackage", !.operating = TRUE,
                                   !.error = Null, !.errorFrom = "none",
                                   !.operations = @ + 1]
    /\ UNCHANGED <<dbusClient, nclients, closes, tx, listeners, svc, wire,
                   emitted, obs, probe, parsed>>
    /\ UNCHANGED <<sorted, message, nav, search, list>>

\* handleRemove: as handleInstall, with PK.removePackage
DetailsHandleRemove ==
    /\ details.pc = "idle"
    /\ DetailsView(details) = "details"
    /\ details.operations < MaxOperations
    /\ details' = [details EXCEPT !.pc = "removePackage", !.operating = TRUE,
                                   !.error = Null, !.errorFrom = "none",
                                   !.operations = @ + 1]
    /\ UNCHANGED <<dbusClient, nclients, closes, tx, listeners, svc, wire,
                   emitted, obs, probe, parsed>>
    /\ UNCHANGED <<sorted, message, nav, search, list>>

\* the awaited operation ends: await loadPackageDetails() on success,
\* setError(getErrorMessage(err)) and the finally block on failure
DetailsOperationReturn(ok, err) ==
    /\ details.pc \in {"installPackage", "removePackage"}
    /\ details' =
           IF ok
           THEN loadPackageDetails(details)
           ELSE [details EXCEPT !.pc = "idle", !.operating = FALSE,
                                !.error = Str(getErrorMessage(err)),
                                !.errorFrom = "operation"]
    /\ UNCHANGED <<dbusClient, nclients, closes, tx, listeners, svc, wire,
                   emitted, obs, probe, parsed>>
    /\ UNCHANGED <<sorted, message, nav, search, list>>

\* ----------------------------------------------------- PackageManager
\* the user opens a URL of the page: any path, no options
NavOpen(path) ==
    /\ nav' = go(nav, path, Undefined)
    /\ UNCHANGED <<dbusClient, nclients, closes, tx, listeners, svc, wire,
                   emitted, obs, probe, parsed>>
    /\ UNCHANGED <<sorted, message, details, search, list>>

\* 'locationchanged': update() copies cockpit.location into the state; the
\* component renders again and the effect on [path] is due
NavLocationChanged ==
    /\ nav.changed
    /\ nav' = [nav EXCEPT !.state = nav.location, !.changed = FALSE,
                           !.effect = TRUE, !.redirected = nav.redirecting,
                           !.redirecting = FALSE]
    /\ UNCHANGED <<dbusClient, nclients, closes, tx, listeners, svc, wire,
                   emitted, obs, probe, parsed>>
    /\ UNCHANGED <<sorted, message, details, search, list>>

\* the effect on [path]: if (isInvalidPath) cockpit.location.go([])
NavEffect ==
    /\ nav.effect
    /\ nav' = IF isInvalidPath(nav.state.path)
              THEN [go(nav, <<>>, Undefined) EXCEPT !.effect = FALSE,
                                                    !.redirecting = TRUE]
              ELSE [nav EXCEPT !.effect = FALSE]
    /\ UNCHANGED <<dbusClient, nclients, closes, tx, listeners, svc, wire,
                   emitted, obs, probe, parsed>>
    /\ UNCHANGED <<sorted, message, details, search, list>>

\* handleGroupSelect(groupId), from the groups view
HandleGroupSelect(groupId) ==
    /\ "groups" \in Views(nav.state.path)
    /\ nav' = go(nav, <<"group", groupId>>, Undefined)
    /\ UNCHANGED <<dbusClient, nclients, closes, tx, listeners, svc, wire,
                   emitted, obs, probe, parsed>>
    /\ UNCHANGED <<sorted, message, details, search, list>>

\* handlePackageSelect(packageId, groupId?): from a search result of the
\* groups view, or from the package list with its group as context
HandlePackageSelect(packageId) ==
    /\ \/ /\ "groups" \in Views(nav.state.path)
          /\ nav' = go(nav, <<"package", packageId>>, Undefined)
       \/ /\ "list" \in Views(nav.state.path)
          /\ nav' = go(nav, <<"package", packageId>>, Str(nav.state.path[2]))
    /\ UNCHANGED <<dbusClient, nclients, closes, tx, listeners, svc, wire,
                   emitted, obs, probe, parsed>>
    /\ UNCHANGED <<sorted, message, details, search, list>>

\* handleBackToGroups, from the package list
HandleBackToGroups ==
    /\ "list" \in Views(nav.state.path)
    /\ nav' = go(nav, <<>>, Undefined)
    /\ UNCHANGED <<dbusClient, nclients, closes, tx, listeners, svc, wire,
                   emitted, obs, probe, parsed>>
    /\ UNCHANGED <<sorted, message, details, search, list>>

\* handleBackFromDetails: back to the group of the options, or to the root
HandleBackFromDetails ==
    /\ "details" \in Views(nav.state.path)
    /\ LET groupId == nav.state.options.group
       IN  nav' = IF Truthy(groupId) /\ groupId.type = "string"
                  THEN go(nav, <<"group", groupId.v>>, Undefined)
                  ELSE go(nav, <<>>, Undefined)
    /\ UNCHANGED <<dbusClient, nclients, closes, tx, listeners, svc, wire,
                   emitted, obs, probe, parsed>>
    /\ UNCHANGED <<sorted, message, details, search, list>>

\* ------------------------------------------------ GroupList: search
\* onChange / onClear of the search field: setSearchQuery(value)
SetSearchQuery(value) ==
    /\ value # search.searchQuery
    /\ search' =
           useEffect([search EXCEPT
                          !.searchQuery = value,
                          !.entered = FALSE, !.unchanged = FALSE,
                          !.sinceShort = @ /\ Len(trim(value)) >= 2])
    /\ UNCHANGED <<dbusClient, nclients, closes, tx, listeners, svc, wire,
                   emitted, obs, probe, parsed>>
    /\ UNCHANGED <<sorted, message, details, nav, list>>

\* handleSearchKeyDown with key 'Enter' on a query of two or more characters
\* (on a shorter one the handler does nothing)
HandleSearchKeyDown ==
    /\ Len(trim(search.searchQuery)) >= 2
    /\ LET s == [search EXCEPT !.manualSearchTriggered = TRUE,
                               !.entered = TRUE, !.sinceShort = TRUE]
       IN  search' = IF search.manualSearchTriggered THEN s ELSE useEffect(s)
    /\ UNCHANGED <<dbusClient, nclients, closes, tx, listeners, svc, wire,
                   emitted, obs, probe, parsed>>
    /\ UNCHANGED <<sorted, message, details, nav, list>>

\* 300 ms have passed since the effect set the timer: the callback starts
\* PK.searchNames(trimmedQuery)
SearchTimeout ==
    /\ search.timer # <<>>
    /\ Len(search.runs) < Cardinality(Searches)
    /\ search' =
           [search EXCEPT
                !.timer = <<>>, !.unchanged = TRUE,
                !.runs = Append(@, [query |-> search.timer[1],
                                    stage |-> "searchNames"]),
                !.issue = [entered |-> search.entered,
                           sinceShort |-> search.sinceShort,
                           current |-> search.timer[1] = trim(search.searchQuery)]]
    /\ UNCHANGED <<dbusClient, nclients, closes, tx, listeners, svc, wire,
                   emitted, obs, probe, parsed>>
    /\ UNCHANGED <<sorted, message, details, nav, list>>

\* await PK.searchNames(trimmedQuery) of search i returns some packages, none,
\* or is rejected
SearchNamesReturn(i, outcome) ==
    /\ i \in 1..Len(search.runs)
    /\ search.runs[i].stage = "searchNames"
    /\ search' =
           CASE outcome = "some" ->
                    [search EXCEPT !.runs[i].stage = "getDetails"]
             [] outcome = "none" ->
                    [searchDone(search, <<>>) EXCEPT !.runs[i].stage = "empty"]
             [] outcome = "rejected" ->
                    [searchFailed(search, PlainObject) EXCEPT
                         !.runs[i].stage = "failed"]
    /\ UNCHANGED <<dbusClient, nclients, closes, tx, listeners, svc, wire,
                   emitted, obs, probe, parsed>>
    /\ UNCHANGED <<sorted, message, details, nav, list>>

\* await PK.getDetails(packageIds) of search i returns or is rejected
SearchDetailsReturn(i, ok) ==
    /\ i \in 1..Len(search.runs)
    /\ search.runs[i].stage = "getDetails"
    /\ search' =
           IF ok
           THEN [searchDone(search, <<search.runs[i].query>>) EXCEPT
                     !.runs[i].stage = "found"]
           ELSE [searchFailed(search, PlainObject) EXCEPT
                     !.runs[i].stage = "failed"]
    /\ UNCHANGED <<dbusClient, nclients, closes, tx, listeners, svc, wire,
                   emitted, obs, probe, parsed>>
    /\ UNCHANGED <<sorted, message, details, nav, list>>

\* -------------------------------------------------------- PackageList
\* the list of the group is opened: useEffect(() => { loadPackages() }, [groupId])
MountList(groupId) ==
    /\ list.pc = "unmounted"
    /\ list' = loadPackages([list EXCEPT !.groupId = groupId,
                                         !.loading = TRUE, !.error = Null,
                                         !.packages = {}, !.operatingOn = Null])
    /\ UNCHANGED <<dbusClient, nclients, closes, tx, listeners, svc, wire,
                   emitted, obs, probe, parsed>>
    /\ UNCHANGED <<sorted, message, details, nav, search>>

\* the user leaves the list (onBack); the cache of PackageManager stays
UnmountList ==
    /\ list.pc = "idle"
    /\ list' = [list EXCEPT !.pc = "unmounted", !.done = <<>>]
    /\ UNCHANGED <<dbusClient, nclients, closes, tx, listeners, svc, wire,
                   emitted, obs, probe, parsed>>
    /\ UNCHANGED <<sorted, message, details, nav, search>>

\* await PK.searchGroups returns: setCache(groupId, sorted);
\* setPackages(sorted); or is rejected: setError(getErrorMessage(err))
SearchGroupsReturn(ok, err) ==
    /\ list.pc = "searchGroups"
    /\ list' =
           IF ok
           THEN [list EXCEPT !.pc = "idle", !.loading = FALSE,
                             !.operatingOn = Null,
                             !.cache[list.groupId] =
                                 <<searchGroups(list.groupId, list.system)>>,
                             !.packages = searchGroups(list.groupId, list.system)]
           ELSE [list EXCEPT !.pc = "idle", !.loading = FALSE,
                             !.operatingOn = Null,
                             !.error = Str(getErrorMessage(err))]
    /\ UNCHANGED <<dbusClient, nclients, closes, tx, listeners, svc, wire,
                   emitted, obs, probe, parsed>>
    /\ UNCHANGED <<sorted, message, details, nav, search>>

\* handleInstall(pkg) on a row shown as not installed
ListHandleInstall(pkg) ==
    /\ list.pc = "idle"
    /\ pkg \in list.packages /\ ~pkg.installed
    /\ list.operatingOn = Null
    /\ list.operations < MaxOperations
    /\ list' = [list EXCEPT !.pc = "installPackage",
                             !.operatingOn = Str(pkg.name),
                             !.operations = @ + 1, !.done = <<>>]
    /\ UNCHANGED <<dbusClient, nclients, closes, tx, listeners, svc, wire,
                   emitted, obs, probe, parsed>>
    /\ UNCHANGED <<sorted, message, details, nav, search>>

\* handleRemove(pkg) on a row shown as installed
ListHandleRemove(pkg) ==
    /\ list.pc = "idle"
    /\ pkg \in list.packages /\ pkg.installed
    /\ list.operatingOn = Null
    /\ list.operations < MaxOperations
    /\ list' = [list EXCEPT !.pc = "removePackage",
                             !.operatingOn = Str(pkg.name),
                             !.operations = @ + 1, !.done = <<>>]
    /\ UNCHANGED <<dbusClient, nclients, closes, tx, listeners, svc, wire,
                   emitted, obs, probe, parsed>>
    /\ UNCHANGED <<sorted, message, details, nav, search>>

\* the awaited operation ends: on success the system has the package
\* installed or removed and loadPackages() is awaited; on failure
\* setError(getErrorMessage(err)); finally setOperatingOn(null)
ListOperationReturn(ok, err) ==
    /\ list.pc \in {"installPackage", "removePackage"}
    /\ list' =
           IF ok
           THEN loadPackages(
                    [list EXCEPT
                         !.system[list.operatingOn.v] = (list.pc = "installPackage"),
                         !.done = <<[op |-> list.pc, name |-> list.operatingOn.v]>>])
           ELSE [list EXCEPT !.pc = "idle", !.operatingOn = Null,
                             !.error = Str(getErrorMessage(err))]
    /\ UNCHANGED <<dbusClient, nclients, closes, tx, listeners, svc, wire,
                   emitted, obs, probe, parsed>>
    /\ UNCHANGED <<sorted, message, details, nav, search>>

NextParse == ParsePackageId

SpecParse == InitParse /\ [][NextParse]_vars

\* One application of sortGroupsByPriority to each array of groups.
NextSort == SortGroupsByPriority

SpecSort == InitSort /\ [][NextSort]_vars

\* One application of getErrorMessage to each value.
NextMessage == GetErrorMessage

SpecMessage == InitMessage /\ [][NextMessage]_vars

\* The PackageDetails view of one package: the load on mount, an install or
\* a removal, and the reload that follows it.
NextDetails ==
    \/ MountDetails
    \/ \E err \in Rejections : GetDetailsRejected(err)
    \/ \E ds \in {<<>>} \cup {<<p>> : p \in Packages} : GetDetailsReturn(ds)
    \/ \E ok \in BOOLEAN, err \in Rejections : GetDependenciesReturn(ok, err)
    \/ \E ok \in BOOLEAN, err \in Rejections :
           GetReverseDependenciesReturn(ok, err)
    \/ \E ok \in BOOLEAN, err \in Rejections : GetFilesReturn(ok, err)
    \/ DetailsHandleInstall
    \/ DetailsHandleRemove
    \/ \E ok \in BOOLEAN, err \in Rejections : DetailsOperationReturn(ok, err)

SpecDetails == Init /\ [][NextDetails]_vars

\* Navigation: URLs opened by the user, the handlers of the rendered view,
\* the 'locationchanged' event and the invalid-path effect.
NextNav ==
    \/ \E path \in UNION {[1..n -> Segments] : n \in 0..MaxPath} : NavOpen(path)
    \/ NavLocationChanged
    \/ NavEffect
    \/ \E id \in Segments : HandleGroupSelect(id)
    \/ \E id \in Segments : HandlePackageSelect(id)
    \/ HandleBackToGroups
    \/ HandleBackFromDetails

SpecNav == Init /\ [][NextNav]_vars

\* The search field of the group list: edits, Enter, the debounce timer and
\* the completion of the searches it started, in any order.
NextSearch ==
    \/ \E value \in Edits(search.searchQuery) : SetSearchQuery(value)
    \/ HandleSearchKeyDown
    \/ SearchTimeout
    \/ \E i \in Searches, outcome \in {"some", "none", "rejected"} :
           SearchNamesReturn(i, outcome)
    \/ \E i \in Searches, ok \in BOOLEAN : SearchDetailsReturn(i, ok)

SpecSearch == Init /\ [][NextSearch]_vars

\* The package list of one group: opened, left and opened again, with
\* installs and removals from its rows.
NextList ==
    \/ \E groupId \in ListGroups : MountList(groupId)
    \/ UnmountList
    \/ \E ok \in BOOLEAN, err \in Rejections : SearchGroupsReturn(ok, err)
    \/ \E pkg \in list.packages : ListHandleInstall(pkg)
    \/ \E pkg \in list.packages : ListHandleRemove(pkg)
    \/ \E ok \in BOOLEAN, err \in Rejections : ListOperationReturn(ok, err)

SpecList == Init /\ [][NextList]_vars

\* ================================================================ claims
\* steps, recognised from the variables they change
CloseStep == closes' # closes
DeliverStep(p) == wire[p] # <<>> /\ wire'[p] = Tail(wire[p]) /\ closes' = closes
Delivered(p) == Head(wire[p])

\* a transaction in flight on the cached connection: created on the service,
\* watched, and its promise not settled
InFlight(t) ==
    /\ tx[t].pc \in {"watching", "calling"}
    /\ tx[t].promise.state = "pending"
    /\ tx[t].client = dbusClient

\* C1: when the connection closes, the promise of every transaction in flight
\* on it that has seen neither ErrorCode nor Finished is rejected in that very
\* step with the TransactionError of the synthetic error ('close', 'PackageKit
\* crashed'; code 'cancelled' if the client had cancelled), and a settled
\* promise never changes again: it is neither left pending nor resolved later.
C1_CloseRejectsInFlight ==
    [][/\ CloseStep =>
            \A t \in Txns :
                InFlight(t) /\ ~obs[t].errRecv /\ obs[t].exitRecv = 0 =>
                    tx'[t].promise =
                        Rejected(IF tx[t].cancelled THEN "cancelled" ELSE "close",
                                 "PackageKit crashed")
       /\ \A t \in Txns :
            tx[t].promise.state # "pending" => tx'[t].promise = tx[t].promise
      ]_vars

\* two transactions were in flight when the connection closed, and both
\* promises are rejected with the synthetic error
C1_Witness ==
    /\ closes = 1
    /\ \A t \in Txns : tx[t].promise = Rejected("close", "PackageKit crashed")

\* C2: when ErrorCode(code, detail) is dispatched for a transaction the client
\* has not cancelled, its promise becomes the rejection carrying exactly that
\* code and detail, and the Finished signal dispatched after an ErrorCode
\* leaves that rejection as it is.
C2_ErrorCodeRejectsWithCodeAndDetail ==
    [][\A t \in Txns :
          DeliverStep(t) =>
            /\ Delivered(t).member = "ErrorCode" /\ ~tx[t].cancelled =>
                  tx'[t].promise = Rejected(Delivered(t).args[1], Delivered(t).args[2])
            /\ Delivered(t).member = "Finished" /\ obs[t].errRecv =>
                  /\ tx[t].promise.state = "rejected"
                  /\ tx'[t].promise = tx[t].promise
      ]_vars

\* ErrorCode('no-network', ...) and then Finished were dispatched, without a
\* cancel or a connection loss, and the promise holds that rejection
C2_Witness ==
    /\ closes = 0
    /\ obs[1].errRecv
    /\ obs[1].exitRecv = EXIT_FAILED
    /\ ~tx[1].cancelled
    /\ tx[1].promise = Rejected("no-network", "network is down")

\* C3 as claimed: a cancel invoked before any terminal signal always ends in
\* a rejection with code 'cancelled' (remote calls that fail set aside).
C3_CancelAlwaysRejects ==
    \A t \in Txns :
        obs[t].earlyCancel /\ tx[t].promise.state # "pending" /\ tx[t].pc # "failed" =>
            /\ tx[t].promise.state = "rejected"
            /\ tx[t].promise.code = "cancelled"

\* C3, amended: once the client has invoked cancel, an ErrorCode signal
\* dispatched while the promise is pending, or the loss of the connection
\* while the transaction is in flight, rejects the promise with code
\* 'cancelled' and the reported detail, whatever code the service reported.
C3_CancelNormalizesErrorCode ==
    [][\A t \in Txns :
          tx[t].cancelled /\ tx[t].promise.state = "pending" =>
            /\ DeliverStep(t) /\ Delivered(t).member = "ErrorCode" =>
                  tx'[t].promise = Rejected("cancelled", Delivered(t).args[2])
            /\ CloseStep /\ InFlight(t) =>
                  tx'[t].promise = Rejected("cancelled", "PackageKit crashed")
      ]_vars

\* the client cancelled while the promise was pending, the service then
\* reported 'no-network', and the promise is rejected with code 'cancelled'
C3_Witness ==
    /\ obs[1].earlyCancel
    /\ obs[1].errRecv
    /\ closes = 0
    /\ tx[1].promise = Rejected("cancelled", "network is down")

\* the listeners watchTransaction must have registered for slot t
Registered(t) ==
    /\ Listener("close", t, "", "onClose") \in listeners[t]
    /\ \A h \in SignalHandlers(tx[t].method) :
          Listener("subscribe", t, h, h) \in listeners[t]
    /\ Listener("subscribe", t, "Finished", "cleanup") \in listeners[t]
    /\ Listener("watch", t, "", "") \in listeners[t]
    /\ Listener("notify", t, "", "notifyHandler") \in listeners[t]

\* C4: the step that issues the operation's method call starts from a state
\* in which CreateTransaction has returned the path and the close listener,
\* every signal subscription, the property watch and the notify listener of
\* that path are registered; the service runs a transaction, and so emits its
\* signals, only after that step.
C4_ListenBeforeCall ==
    [][\A t \in Txns :
          /\ tx[t].pc # "calling" /\ tx'[t].pc = "calling" =>
                /\ tx[t].path = t
                /\ svc[t] = "created"
                /\ tx[t].client = dbusClient
                /\ Registered(t)
          /\ svc[t] \in {"none", "created"} /\ svc'[t] \in {"running", "errored", "finished"} =>
                tx'[t].pc = "calling" /\ Registered(t)
      ]_vars

\* the method call has been issued and the service runs the transaction
C4_Witness ==
    /\ tx[1].pc = "calling"
    /\ svc[1] = "running"
    /\ Registered(1)

\* C5: the dispatch of a message of transaction p changes the closure of no
\* other transaction (its result list and its promise stay as they are), and
\* a Package signal of p is appended to p's own list.
C5_NoCrossTalk ==
    [][\A p \in Txns :
          DeliverStep(p) =>
            /\ \A t \in Txns \ {p} :
                  /\ tx'[t].packages = tx[t].packages
                  /\ tx'[t].promise = tx[t].promise
            /\ Delivered(p).member = "Package" =>
                  /\ Len(tx'[p].packages) = Len(tx[p].packages) + 1
                  /\ tx'[p].packages[Len(tx'[p].packages)].id = Delivered(p).args[2]
      ]_vars

\* both transactions ran at the same time; A received a package and its
\* Finished signal, B is still running with an empty list and a pending promise
C5_Witness ==
    /\ tx[1].promise = Resolved(EXIT_SUCCESS)
    /\ Len(tx[1].packages) = 1
    /\ svc[2] = "running"
    /\ tx[2].pc = "calling"
    /\ tx[2].packages = <<>>
    /\ tx[2].promise.state = "pending"

\* C6 as claimed, for a real Finished signal: once Finished has been
\* dispatched to a transaction, none of the listeners it registered is left
\* on the connection.
C6_NoListenerAfterFinished ==
    \A t \in Txns :
        closes = 0 /\ obs[t].exitRecv # 0 => listeners[t] = {}

\* C7: when Finished(exit) is dispatched to a transaction that has seen no
\* ErrorCode, no connection loss and no failed call, its promise becomes
\* resolved with exactly that exit code.
C7_FinishedResolvesWithExit ==
    [][\A t \in Txns :
          /\ DeliverStep(t)
          /\ Delivered(t).member = "Finished"
          /\ ~obs[t].errRecv
          /\ tx[t].pc # "failed"
          => tx'[t].promise = Resolved(Delivered(t).args[1])
      ]_vars

\* Finished(EXIT_CANCELLED) arrived without an ErrorCode and the promise is
\* resolved with EXIT_CANCELLED
C7_Witness ==
    /\ obs[1].exitRecv = EXIT_CANCELLED
    /\ ~obs[1].errRecv
    /\ tx[1].promise = Resolved(EXIT_CANCELLED)

\* C8 as claimed: installPackage's promise fulfils only if the
\* InstallPackages transaction (slot 2) ended with EXIT_SUCCESS.
C8_InstallFulfilsOnlyOnSuccess ==
    installPackage(1).state = "fulfilled" => obs[2].exitRecv = EXIT_SUCCESS

\* C9: a step that hands a snapshot to the progress callback leaves the
\* snapshot's percentage at the last delivered value (0 before any) unless
\* the step dispatches a notification whose Percentage is at most 100, which
\* then becomes the percentage; a Percentage above 100 changes nothing.
C9_PercentageAbove100Dropped ==
    [][\A t \in Txns :
          obs'[t].cbCount # obs[t].cbCount =>
            IF /\ DeliverStep(t)
               /\ Delivered(t).member = "notify"
               /\ "Percentage" \in DOMAIN Delivered(t).args[1]
               /\ Delivered(t).args[1].Percentage <= 100
            THEN obs'[t].snap.percentage = Delivered(t).args[1].Percentage
            ELSE obs'[t].snap.percentage = obs[t].snap.percentage
      ]_vars

\* Percentage 40 was accepted, then Percentage 101 was dispatched and a
\* snapshot delivered: it still says 40
C9_Witness ==
    /\ obs[1].cbCount = 2
    /\ obs[1].percentRecv = 101
    /\ obs[1].snap.percentage = 40
    /\ tx[1].timer = "pending"

\* C10: every snapshot handed to the progress callback has waiting = TRUE
\* exactly if the grace timer has fired and the Status most recently reported
\* to the client is STATUS_WAIT or STATUS_WAITING_FOR_LOCK.
C10_WaitingOnlyAfterGrace ==
    [][\A t \in Txns :
          obs'[t].cbCount # obs[t].cbCount =>
            (obs'[t].snap.waiting <=>
                /\ tx'[t].timer = "fired"
                /\ obs'[t].statusRecv \in {STATUS_WAIT, STATUS_WAITING_FOR_LOCK})
      ]_vars

\* a snapshot with waiting = TRUE was delivered, and one with waiting = FALSE
\* is delivered while the status is STATUS_WAIT and the timer is pending
C10_Witness ==
    /\ obs[1].cbCount > 0
    /\ obs[1].snap.waiting
    /\ obs[1].statusRecv = STATUS_WAITING_FOR_LOCK
    /\ tx[1].timer = "fired"

\* C11: as long as the progress callback can still be invoked, the snapshot
\* it was last handed offers a cancel function exactly if the AllowCancel
\* value most recently reported to the client for the transaction is TRUE;
\* it is null while no AllowCancel has been reported and after a report of
\* FALSE.
C11_CancelIffAllowCancel ==
    \A t \in Txns :
        obs[t].cbCount > 0 /\ tx[t].progressCb =>
            (obs[t].snap.cancel <=> obs[t].allowRecv = <<TRUE>>)

\* AllowCancel TRUE and then AllowCancel FALSE were reported, a snapshot was
\* delivered for each, and the last one offers no cancel function
C11_Witness ==
    /\ obs[1].cbCount = 2
    /\ tx[1].progressCb
    /\ tx[1].timer = "pending"
    /\ obs[1].allowRecv = <<FALSE>>
    /\ emitted.notify = 2
    /\ ~obs[1].snap.cancel
    /\ tx[1].cancelled

\* the Resolve transaction of slot t has ended with its promise settled
\* otherwise than by a fulfilment that carries an id
ResolveFailed(t) ==
    \/ tx[t].promise.state = "rejected"
    \/ tx[t].promise.state = "resolved" /\ emitted.sent[t] = <<>>

C16_ResolveFirstOrNotFound ==
    \A t \in Txns :
        /\ tx[t].op = "resolve"
        /\ obs[t].exitRecv # 0
        /\ ~obs[t].errRecv
        /\ tx[t].pc # "failed"
        => IF emitted.sent[t] = <<>>
           THEN resolve(t).state = "rejected" /\ resolve(t).code = "not-found"
           ELSE /\ resolve(t).state = "fulfilled"
                /\ resolve(t).value = <<emitted.sent[t][1][2]>>

\* Resolve finished with EXIT_SUCCESS and no Package signal: 'not-found',
\* and the call of installPackage is rejected without a second transaction
C16_Witness ==
    /\ tx[1].op = "resolve"
    /\ tx[1].promise = Resolved(EXIT_SUCCESS)
    /\ emitted.sent[1] = <<>>
    /\ resolve(1).code = "not-found"
    /\ tx[2].pc = "reserved"

\* C17 as claimed: in a call of installPackage whose service reported
\* non-decreasing Percentage values within each of the two transactions, no
\* snapshot handed to the caller's callback by the second transaction has a
\* percentage below that of the last snapshot handed over by the first.
C17_PercentageNonDecreasing ==
    /\ \A t \in Txns : obs[t].pctOrdered
    /\ obs[1].cbCount > 0
    /\ obs[2].cbCount > 0
    => obs[2].snap.percentage >= obs[1].snap.percentage

\* C18: the list the promise of searchNames fulfils with has one entry for
\* each Package signal the service emitted for the transaction, in the order
\* of emission, each with the id and the installed state of its signal.
C18_ListMatchesEmission ==
    \A t \in Txns :
        tx[t].op = "searchNames" /\ searchNames(t).state = "fulfilled" =>
            searchNames(t).value =
                [i \in 1..Len(emitted.sent[t]) |->
                    [id |-> emitted.sent[t][i][2],
                     installed |-> (emitted.sent[t][i][1] = INFO_INSTALLED)]]

\* the service emitted curl and then nginx, and the promise fulfilled with
\* the list of the two in that order
C18_Witness ==
    /\ searchNames(1).state = "fulfilled"
    /\ Len(searchNames(1).value) = 2
    /\ searchNames(1).value[1].id = "curl;2.0;amd64;main"
    /\ searchNames(1).value[2].id = "nginx;1.0;amd64;installed:main"
    /\ emitted.sent[1] = <<<<INFO_AVAILABLE, "curl;2.0;amd64;main">>,
                           <<INFO_INSTALLED, "nginx;1.0;amd64;installed:main">>>>

\* the output, read as options separated by commas, has the option 'ro': the
\* characters r, o stand between two commas, or between a comma and an end
\* of the output
HasOptionRo(s) ==
    \E i \in 1..(Len(s) - 1) :
        /\ s[i] = "r" /\ s[i + 1] = "o"
        /\ i = 1 \/ s[i - 1] = ","
        /\ i + 1 = Len(s) \/ s[i + 2] = ","

Semis(s) == Cardinality({i \in 1..Len(s) : s[i] = ";"})
Tag(s) ==
    LET k == CHOOSE i \in 1..Len(s) :
                 s[i] = ";" /\ \A j \in (i + 1)..Len(s) : s[j] # ";"
    IN  SubSeq(s, k + 1, Len(s))

\* C20: for a package id with exactly four fields (three ';'), the name,
\* version, arch and repo of the record parsePackageId returns, joined with
\* ';', are the argument again, and installed is TRUE exactly if the text
\* after the last ';' has 'installed' somewhere in it.
C20_ParseRoundTrip ==
    /\ parsed.applied
    /\ parsed.packageId.type = "string"
    /\ Semis(parsed.packageId.chars) = 3
    => LET r == parsed.ret
           tag == Tag(parsed.packageId.chars)
       IN  /\ ~r.threw
           /\ join(<<r.name, r.version, r.arch, r.repo>>, ";") = parsed.packageId.chars
           /\ r.installed <=>
                 \E i \in 1..(Len(tag) - 8) :
                     /\ tag[i] = "i" /\ tag[i + 1] = "n" /\ tag[i + 2] = "s"
                     /\ tag[i + 3] = "t" /\ tag[i + 4] = "a" /\ tag[i + 5] = "l"
                     /\ tag[i + 6] = "l" /\ tag[i + 7] = "e" /\ tag[i + 8] = "d"

\* 'a;;a;m:installed:m' was parsed: an empty version, and a tag with the
\* marker in its middle
C20_Witness ==
    /\ parsed.applied
    /\ Semis(parsed.packageId.chars) = 3
    /\ parsed.ret.name = <<"a">>
    /\ parsed.ret.version = <<>>
    /\ parsed.ret.repo = <<"m", ":", "i", "n", "s", "t", "a", "l", "l", "e", "d", ":", "m">>
    /\ parsed.ret.installed

\* C12: a call of cancellableTransaction that supplies a handler for
\* ErrorCode or for Finished has thrown, and nothing else has happened: no
\* client was created and no remote call issued, no listener is registered,
\* the grace timer is not armed and the service knows of no transaction.
C12_OwnTerminalHandlersThrow ==
    \A t \in Txns :
        obs[t].supplied \cap {"ErrorCode", "Finished"} # {} =>
            /\ tx[t].pc = "thrown"
            /\ tx[t].ncreate = 0 /\ tx[t].ninvoke = 0
            /\ nclients = 0 /\ dbusClient = 0
            /\ listeners[t] = {}
            /\ tx[t].timer = "none"
            /\ svc[t] = "none"

\* the call that supplied a Finished handler has thrown
C12_Witness ==
    /\ obs[1].supplied = {"Finished"}
    /\ tx[1].pc = "thrown"
    /\ nclients = 0

\* C13: when the CreateTransaction call of a transaction has failed, its
\* promise is rejected with the error of that call, none of its listeners is
\* registered, the service has no transaction for it, the operation's method
\* was never called, and CreateTransaction was called exactly once.
C13_CreateFailurePropagates ==
    \A t \in Txns :
        obs[t].callErr # <<>> /\ tx[t].path = 0 =>
            /\ tx[t].promise = Rejected(obs[t].callErr[1], obs[t].callErr[2])
            /\ listeners[t] = {}
            /\ svc[t] = "none"
            /\ tx[t].ninvoke = 0
            /\ tx[t].ncreate = 1
            /\ tx[t].pc = "failed"

\* CreateTransaction failed with 'access-denied' and the grace timer has
\* fired since
C13_Witness ==
    /\ tx[1].pc = "failed"
    /\ tx[1].path = 0
    /\ tx[1].timer = "fired"
    /\ tx[1].promise = Rejected("access-denied", "not permitted")

\* C14: a connection loss empties the cache; a step without one leaves a
\* cached handle and the number of handles created as they are, and fills an
\* empty cache only with a handle never created before; a step that issues a
\* remote call gets the handle that is cached after it.
C14_SingleSharedHandle ==
    [][/\ CloseStep => dbusClient' = 0 /\ nclients' = nclients
       /\ ~CloseStep =>
            /\ dbusClient # 0 => dbusClient' = dbusClient /\ nclients' = nclients
            /\ dbusClient = 0 /\ dbusClient' # 0 =>
                  dbusClient' = nclients + 1 /\ nclients' = nclients + 1
            /\ dbusClient' = 0 => nclients' = nclients
       /\ \A t \in Txns :
            tx'[t].pc # tx[t].pc /\ tx'[t].pc \in {"creating", "calling"} =>
                tx'[t].callClient = dbusClient' /\ dbusClient' # 0
      ]_vars

\* the first search used handle 1, the connection was lost, and the second
\* search created and used handle 2
C14_Witness ==
    /\ closes = 1
    /\ nclients = 2
    /\ dbusClient = 2
    /\ tx[1].callClient = 1
    /\ tx[2].callClient = 2
    /\ tx[2].pc = "calling"

\* C21 as claimed: whenever parsePackageId has returned a record, the name
\* of the record is not the empty string.
C21_NameNonEmpty ==
    parsed.applied /\ ~parsed.ret.threw => parsed.ret.name # <<>>

\* the number of occurrences of g in the sequence s
Occurrences(s, g) == Cardinality({i \in 1..Len(s) : s[i] = g})

\* the ids of the priority groups, and the display names in alphabetical order
IsPriority(g) == \E k \in 1..Len(PRIORITY_GROUPS) : PRIORITY_GROUPS[k] = g.id
PriorityRank(g) == CHOOSE k \in 1..Len(PRIORITY_GROUPS) : PRIORITY_GROUPS[k] = g.id
Alphabetical ==
    <<Names.Administration, Names.Education, Names.Fonts, Names.Games,
      Names.Maps, Names.Network, Names.Servers>>
AlphaRank(g) == CHOOSE k \in 1..Len(Alphabetical) : Alphabetical[k] = g.name

\* C25: sortGroupsByPriority returns a permutation of its argument in which
\* every priority group precedes every other group, the priority groups are
\* in the order of PRIORITY_GROUPS, and the other groups are in alphabetical
\* order of their names.
C25_SortedByPriorityThenName ==
    sorted.applied =>
        /\ Len(sorted.ret) = Len(sorted.arg)
        /\ \A g \in Groups :
               Occurrences(sorted.ret, g) = Occurrences(sorted.arg, g)
        /\ \A i, j \in 1..Len(sorted.ret) :
               i < j =>
                   /\ ~(IsPriority(sorted.ret[j]) /\ ~IsPriority(sorted.ret[i]))
                   /\ IsPriority(sorted.ret[i]) /\ IsPriority(sorted.ret[j]) =>
                          PriorityRank(sorted.ret[i]) <= PriorityRank(sorted.ret[j])
                   /\ ~IsPriority(sorted.ret[i]) /\ ~IsPriority(sorted.ret[j]) =>
                          AlphaRank(sorted.ret[i]) <= AlphaRank(sorted.ret[j])

\* an array that starts with two other groups out of alphabetical order and
\* ends with a priority group has been sorted
C25_Witness ==
    /\ sorted.applied
    /\ Len(sorted.arg) = 3
    /\ ~IsPriority(sorted.arg[1]) /\ ~IsPriority(sorted.arg[2])
    /\ AlphaRank(sorted.arg[1]) > AlphaRank(sorted.arg[2])
    /\ IsPriority(sorted.arg[3])
    /\ sorted.ret = <<sorted.arg[3], sorted.arg[2], sorted.arg[1]>>

\* the friendly text of each mapped code, as the documentation lists it
FriendlyText(code) ==
    CASE code = "cancelled" -> "Operation was cancelled"
      [] code = "not-found" -> "Package not found"
      [] code = "already-installed" -> "Package is already installed"
      [] code = "dep-resolution-failed" -> "Could not resolve dependencies"
      [] code = "cannot-remove-system-package" -> "Cannot remove system package"
      [] code = "no-network" -> "No network connection"
      [] code = "package-download-failed" -> "Failed to download package"
      [] code = "transaction-error" -> "Transaction failed"
IsKnownCode(code) == code.type = "string" /\ code.v \in KnownCodes
IsTransactionError(e) == e.type = "TransactionError"

\* what the claim says of every value other than a TransactionError with an
\* unknown code
C26_OtherCases ==
    LET e == message.error
    IN  /\ IsTransactionError(e) /\ IsKnownCode(e.code) =>
               message.ret = FriendlyText(e.code.v)
        /\ e.type = "Error" => message.ret = e.message
        /\ e.type = "string" => message.ret = e.v
        /\ e.type = "number" /\ e.v = 42 => message.ret = "42"
        /\ e.type = "number" /\ e.v = 0 => message.ret = "0"
        /\ e.type = "object" => message.ret = "[object Object]"
        /\ e.type = "null" => message.ret = "null"
        /\ e.type = "undefined" => message.ret = "undefined"

\* C26 as claimed: getErrorMessage returns the friendly text for a
\* TransactionError with a known code, the detail string for a
\* TransactionError with an unknown code, the message for any other Error and
\* the stringified value for anything else.
C26_DetailForUnknownCode ==
    message.applied =>
        /\ C26_OtherCases
        /\ IsTransactionError(message.error) /\ ~IsKnownCode(message.error.code)
               => message.ret = message.error.detail

\* C26, amended: as above, except that for a TransactionError with an unknown
\* code the result is the detail string when it is not empty and the text
\* 'An error occurred' when it is empty.
C26_DetailOrDefaultForUnknownCode ==
    message.applied =>
        /\ C26_OtherCases
        /\ IsTransactionError(message.error) /\ ~IsKnownCode(message.error.code)
               => message.ret = IF message.error.detail = ""
                                 THEN "An error occurred"
                                 ELSE message.error.detail

\* getErrorMessage has been applied to a TransactionError with an unknown
\* code and an empty detail
C26_Witness ==
    /\ message.applied
    /\ IsTransactionError(message.error)
    /\ ~IsKnownCode(message.error.code)
    /\ message.error.detail = ""
    /\ message.ret = "An error occurred"

\* C29: once the promise of a cancellableTransaction has settled, by
\* ErrorCode, Finished, the loss of the connection or a failed remote call, no
\* step invokes its progress callback again: neither the delivery of a later
\* property-change notification nor the firing of the grace timer.
C29_NoCallbackAfterSettled ==
    [][\A t \in Txns :
          tx[t].promise.state # "pending" =>
              /\ obs'[t].cbCount = obs[t].cbCount
              /\ obs'[t].snap = obs[t].snap]_vars

\* Status WAIT was reported and the callback was invoked once in all; the
\* promise settled, and the grace timer fired after that without an
\* invocation: the only snapshot the caller has seen is not waiting
C29_Witness ==
    /\ tx[1].userCb
    /\ tx[1].promise.state # "pending"
    /\ tx[1].timer = "fired"
    /\ obs[1].cbCount = 1
    /\ obs[1].statusRecv = STATUS_WAIT
    /\ ~obs[1].snap.waiting
    /\ wire[1] = <<>>

\* the firing of the grace timer of slot t
TimerStep(t) == tx[t].timer = "pending" /\ tx'[t].timer = "fired"

\* C30: a property-change notification updates only the fields it carries:
\* without Percentage the percentage is unchanged, without AllowCancel the
\* cancel field is unchanged, without Status the tracked status is unchanged;
\* the firing of the grace timer changes none of percentage, cancel, status.
C30_OnlyCarriedFieldsChange ==
    [][/\ \A p \in Txns :
             DeliverStep(p) /\ Delivered(p).member = "notify" =>
                 \A t \in Txns :
                     LET props == Delivered(p).args[1]
                     IN  /\ "Percentage" \notin DOMAIN props =>
                                tx'[t].progressData.percentage =
                                    tx[t].progressData.percentage
                         /\ "AllowCancel" \notin DOMAIN props =>
                                tx'[t].progressData.cancel =
                                    tx[t].progressData.cancel
                         /\ "Status" \notin DOMAIN props =>
                                tx'[t].status = tx[t].status
       /\ \A t \in Txns :
             TimerStep(t) =>
                 /\ tx'[t].progressData.percentage = tx[t].progressData.percentage
                 /\ tx'[t].progressData.cancel = tx[t].progressData.cancel
                 /\ tx'[t].status = tx[t].status
      ]_vars

\* Percentage 40 and AllowCancel TRUE arrived in two notifications and the
\* grace timer fired, each with the callback in place: the last snapshot has
\* both the percentage and the cancel function
C30_Witness ==
    /\ tx[1].progressCb
    /\ tx[1].timer = "fired"
    /\ obs[1].cbCount = 3
    /\ obs[1].percentRecv = 40
    /\ obs[1].allowRecv = <<TRUE>>
    /\ obs[1].snap.percentage = 40
    /\ obs[1].snap.cancel

\* C22: while package details are loaded, a failed dependency,
\* reverse-dependency or file-list lookup does not produce the error state:
\* once GetDetails has returned an entry, that entry stays the package shown
\* and no error is set, and when the load ends the spinner is gone and the
\* details are rendered; the load ends in the error state exactly when
\* GetDetails itself failed or returned nothing.
C22_SecondaryFailuresTolerated ==
    /\ details.pc \in {"getDependencies", "getReverseDependencies", "getFiles"} =>
           /\ details.got = "found"
           /\ details.pkg = details.found
           /\ details.error = Null
    /\ details.pc = "idle" /\ details.errorFrom # "operation" =>
           /\ ~details.loading
           /\ details.got = "found" =>
                  /\ DetailsView(details) = "details"
                  /\ details.pkg = details.found
           /\ DetailsView(details) = "error" <=>
                  details.got \in {"failed", "empty"}

\* a load in which GetDetails returned an installed package and all three
\* secondary lookups failed has ended
C22_Witness ==
    /\ details.pc = "idle"
    /\ details.got = "found"
    /\ details.failed = {"dependencies", "reverseDependencies", "files"}
    /\ DetailsView(details) = "details"

\* the three shapes of a valid path and the view of each
IsValidPath(path) ==
    \/ path = <<>>
    \/ Len(path) = 2 /\ path[1] \in {"group", "package"}
ViewOf(path) ==
    IF path = <<>> THEN "groups"
    ELSE IF path[1] = "group" THEN "list" ELSE "details"

\* C23: for a path [], ['group', id] or ['package', id] exactly one view is
\* rendered, the one of that shape; for any other path no view is rendered
\* and, once the path effect has run, a navigation is under way, which is
\* the one to the root path unless the user has opened another URL since;
\* when the navigation to the root is taken up, the groups view is rendered.
C23_OneViewOrRedirect ==
    /\ IsValidPath(nav.state.path) =>
           Views(nav.state.path) = {ViewOf(nav.state.path)}
    /\ ~IsValidPath(nav.state.path) =>
           /\ Views(nav.state.path) = {}
           /\ ~nav.effect => nav.changed
    /\ nav.redirecting => nav.changed /\ nav.location.path = <<>>
    /\ nav.redirected => Views(nav.state.path) = {"groups"}

\* an invalid path was opened, the effect navigated to the root, and
\* the groups view is rendered
C23_Witness ==
    /\ nav.redirected
    /\ ~nav.changed
    /\ ~nav.effect
    /\ nav.state.path = <<>>
    /\ Views(nav.state.path) = {"groups"}

\* the search started last, and whether search i is still running
LastRun == search.runs[Len(search.runs)]
Running(i) == search.runs[i].stage \in {"searchNames", "getDetails"}

\* what both readings of the claim share: a search is never started for a
\* query shorter than two characters, it is started for the query the field
\* holds at that moment, and a pending timer is always the one set at the
\* last change of the field
C24_Debounced ==
    /\ search.runs # <<>> =>
           /\ Len(LastRun.query) >= 2
           /\ search.issue.current
    /\ search.timer # <<>> => search.timer[1] = trim(search.searchQuery)

C28_LatestSearchWins ==
    search.runs # <<>> /\ search.unchanged /\ search.timer = <<>> =>
        /\ Running(Len(search.runs)) => search.searching
        /\ (LastRun.stage = "found"
               /\ \A i \in 1..Len(search.runs) : ~Running(i)) =>
               search.searchResults = <<LastRun.query>>

\* C27 as claimed: when an install or a removal started from the list has
\* completed and the reload that follows it has ended, the row of the
\* package shows the installed status the package now has on the system.
C27_ReloadShowsNewStatus ==
    list.pc = "idle" /\ list.done # <<>> =>
        \A pkg \in list.packages :
            pkg.name = list.done[1].name =>
                pkg.installed = list.system[pkg.name]

====
